---- MODULE Spec2Model ----
(***************************************************************************)
(* Batch Asset Replacer v2.1 (src/ae-scripts/batch-asset-replacer.jsx).    *)
(*                                                                         *)
(* The After Effects project is a sequence of compositions (containers);   *)
(* the index of a composition in the sequence is its identity.  A          *)
(* composition owns an ordered sequence of layers; a layer is a text leaf  *)
(* or a reference to another composition.                                  *)
(***************************************************************************)
EXTENDS Integers, Sequences, FiniteSets, TLC

(* ------------------------------------------------------------------ *)
(* Bounds of the model                                                 *)
(* ------------------------------------------------------------------ *)

\* layers in the whole original project, for the calls of the tree functions
MaxLayers == 4

\* layers in the whole original project, for the runs of main
MaxRunLayers == 3

\* names of the original compositions of the project, by identity
OrigNames == <<"Main", "Sub", "Deep">>

NumComps == Len(OrigNames)

LeafName == "Headline"

LeafValue == "Hello"

RootFolder == "root"

(* ------------------------------------------------------------------ *)
(* CONFIG  (batch-asset-replacer.jsx:40-45)                            *)
(* ------------------------------------------------------------------ *)

reservedColumns == <<"comp_name", "layer_name", "type">>

outputFolderName == "Localized_Versions"

precompFolderName == "_PRECOMPS"

(* ------------------------------------------------------------------ *)
(* State                                                               *)
(* ------------------------------------------------------------------ *)

VARIABLES
    items,        \* app.project items: Seq of [name, folder, layers, orig, pass]
    pc,           \* position of the script
    call,         \* result of the last duplicateFullTree / discoverAllSubComps call
    data,         \* parseCSV result: [headers, rows]
    run,          \* locals of main(): languages, masterList, compInfo, layerCheck,
                  \*   li, m, r, langFolder, allDupes, stats, errorLog
    host,         \* the rest of the host: [folders, undo]
    hist,         \* for the properties: the project before the run, the language
                  \*   of every duplicateFullTree call, the row applications
    fn,           \* a call of parseCSV, detectLanguages or findLayerDeep on its
                  \*   own: the arguments and what came back
    figma,        \* the Figma plugin: the page, the selection, the messages of
                  \*   the UI not yet handled, the runLocalization calls
    cleanup       \* the Project Cleanup Tool: the project it works on and
                  \*   what its panel holds

(* ------------------------------------------------------------------ *)
(* Host document model                                                 *)
(* ------------------------------------------------------------------ *)

Range(s) == {s[i] : i \in DOMAIN s}

TextLayer(n, v) == [kind |-> "text", name |-> n, src |-> 0, value |-> v]

CompLayer(c) == [kind |-> "comp", name |-> "", src |-> c, value |-> ""]

\* layer.source instanceof CompItem
IsCompLayer(l) == l.kind = "comp"

\* layer.name: a layer that was not renamed carries the name of its source
LayerName(its, l) == IF IsCompLayer(l) THEN its[l.src].name ELSE l.name

\* CompItem.duplicate(): a new item with a copy of every layer; the copies
\* of the layers keep their sources.  orig and pass record, for the
\* properties, which composition was duplicated and in which call.
HostDuplicate(its, c, p) ==
    Append(its, [name |-> its[c].name, folder |-> its[c].folder,
                 layers |-> its[c].layers, orig |-> c, pass |-> p])

\* layer.replaceSource(newSource, false): the script's calls pass a
\* duplicate it has just made, and the layer takes it as its source
HostReplaceSource(its, c, i, newSrc) ==
    [its EXCEPT ![c].layers[i].src = newSrc]

(* ------------------------------------------------------------------ *)
(* discoverAllSubComps  (batch-asset-replacer.jsx:161-182)             *)
(* ------------------------------------------------------------------ *)

RECURSIVE DiscoverLayers(_, _, _, _)
\* the for loop of discoverAllSubComps from layer i on; collected is the
\* array shared by all the recursive calls
DiscoverLayers(its, comp, i, collected) ==
    IF i > Len(its[comp].layers) THEN collected
    ELSE LET layer == its[comp].layers[i] IN
         IF IsCompLayer(layer) /\ layer.src \notin Range(collected)
         THEN DiscoverLayers(its, comp, i + 1,
                  DiscoverLayers(its, layer.src, 1, Append(collected, layer.src)))
         ELSE DiscoverLayers(its, comp, i + 1, collected)

RECURSIVE DirectLayers(_, _, _, _)
\* the loop without the recursive call of line 176
DirectLayers(its, comp, i, collected) ==
    IF i > Len(its[comp].layers) THEN collected
    ELSE LET layer == its[comp].layers[i] IN
         IF IsCompLayer(layer) /\ layer.src \notin Range(collected)
         THEN DirectLayers(its, comp, i + 1, Append(collected, layer.src))
         ELSE DirectLayers(its, comp, i + 1, collected)

\* discoverAllSubComps that does not descend into the sub-comps it finds
discoverDirectSubComps(its, comp) == DirectLayers(its, comp, 1, <<>>)

discoverAllSubComps(its, comp) == DiscoverLayers(its, comp, 1, <<>>)

(* ------------------------------------------------------------------ *)
(* findComp, findOrCreateFolder  (batch-asset-replacer.jsx:119-136)    *)
(* ------------------------------------------------------------------ *)

\* the first item with the name, 0 for null
findComp(its, name) ==
    IF \E i \in DOMAIN its : its[i].name = name
    THEN CHOOSE i \in DOMAIN its :
             its[i].name = name /\ \A j \in DOMAIN its : its[j].name = name => i <= j
    ELSE 0

FolderPath(parent, name) == parent \o "/" \o name

\* folders are known by their path; the folder found or created
findOrCreateFolder(name, parent) == IF parent = "" THEN name ELSE FolderPath(parent, name)

(* ------------------------------------------------------------------ *)
(* findLayerDeep  (batch-asset-replacer.jsx:140-157)                   *)
(* ------------------------------------------------------------------ *)

NotFound == [status |-> "null", comp |-> 0, layer |-> 0]

StackOverflow == [status |-> "overflow", comp |-> 0, layer |-> 0]

\* lines 141-146: the first direct layer with the name, 0 if none
DirectMatch(its, comp, layerName) ==
    LET hits == {i \in DOMAIN its[comp].layers : LayerName(its, its[comp].layers[i]) = layerName}
    IN  IF hits = {} THEN 0 ELSE CHOOSE i \in hits : \A j \in hits : i <= j

RECURSIVE FindDeep(_, _, _, _, _)
\* lines 148-154 from layer j on.  stack holds the compositions whose call
\* is in progress: a call on one of them that finds no direct match repeats
\* its caller's search and the recursion never ends, which the engine
\* ends with a stack overflow error.
FindDeep(its, comp, layerName, j, stack) ==
    IF j = 0
    THEN LET d == DirectMatch(its, comp, layerName) IN
         IF d # 0 THEN [status |-> "found", comp |-> comp, layer |-> d]
         ELSE IF comp \in stack THEN StackOverflow
         ELSE FindDeep(its, comp, layerName, 1, stack)
    ELSE IF j > Len(its[comp].layers) THEN NotFound
    ELSE LET layer2 == its[comp].layers[j] IN
         IF IsCompLayer(layer2)
         THEN LET result == FindDeep(its, layer2.src, layerName, 0, stack \cup {comp}) IN
              IF result.status = "null"
              THEN FindDeep(its, comp, layerName, j + 1, stack)
              ELSE result
         ELSE FindDeep(its, comp, layerName, j + 1, stack)

findLayerDeep(its, comp, layerName) == FindDeep(its, comp, layerName, 0, {})

(* ------------------------------------------------------------------ *)
(* replaceText  (batch-asset-replacer.jsx:186-197)                     *)
(* ------------------------------------------------------------------ *)

\* [ok, its]: false and no change when the layer is not a text layer
replaceText(its, comp, layer, newText) ==
    IF its[comp].layers[layer].kind # "text"
    THEN [ok |-> FALSE, its |-> its]
    ELSE [ok |-> TRUE, its |-> [its EXCEPT ![comp].layers[layer].value = newText]]

(* ------------------------------------------------------------------ *)
(* replaceFootage  (batch-asset-replacer.jsx:199-208)                  *)
(* ------------------------------------------------------------------ *)

\* files: the paths at which a file exists.  [ok, its]: false and no change
\* when there is no file; else the layer is bound to the imported footage
replaceFootage(its, comp, layer, filePath, files) ==
    IF filePath \notin files
    THEN [ok |-> FALSE, its |-> its]
    ELSE [ok |-> TRUE,
          its |-> [its EXCEPT ![comp].layers[layer] =
                      [kind |-> "footage", name |-> @.name, src |-> 0, value |-> filePath]]]

(* ------------------------------------------------------------------ *)
(* duplicateFullTree  (batch-asset-replacer.jsx:216-289)               *)
(* ------------------------------------------------------------------ *)

\* a JavaScript object used as a map from names to values
EmptyMap == [k \in {} |-> 0]

MapPut(map, k, v) == [x \in DOMAIN map \cup {k} |-> IF x = k THEN v ELSE map[x]]

MapHas(map, k) == k \in DOMAIN map

\* lines 235-248: every layer of sc whose source is a composition of the
\* discovered list has the name of its source marked in processed
AllChildrenDone(its, allSubComps, sc, processed) ==
    \A l \in DOMAIN its[sc].layers :
        LET layer == its[sc].layers[l] IN
        (IsCompLayer(layer) /\ layer.src \in Range(allSubComps))
            => its[layer.src].name \in processed

RECURSIVE SortPass(_, _, _, _)
\* lines 231-254: one scan of allSubComps from index i on; st carries
\* processed (the names marked) and sortedComps
SortPass(its, allSubComps, i, st) ==
    IF i > Len(allSubComps) THEN st
    ELSE LET sc == allSubComps[i] IN
         IF its[sc].name \in st.processed
         THEN SortPass(its, allSubComps, i + 1, st)
         ELSE IF AllChildrenDone(its, allSubComps, sc, st.processed)
              THEN SortPass(its, allSubComps, i + 1,
                       [processed |-> st.processed \cup {its[sc].name},
                        sortedComps |-> Append(st.sortedComps, sc)])
              ELSE SortPass(its, allSubComps, i + 1, st)

RECURSIVE SortLoop(_, _, _, _)
\* lines 226-255: the while loop, bounded by maxIterations
SortLoop(its, allSubComps, iterations, st) ==
    LET maxIterations == Len(allSubComps) * Len(allSubComps) + 1 IN
    IF Len(st.sortedComps) < Len(allSubComps) /\ iterations < maxIterations
    THEN SortLoop(its, allSubComps, iterations + 1, SortPass(its, allSubComps, 1, st))
    ELSE st

\* step 2 of duplicateFullTree: the order in which the sub-comps are duplicated
TopoSort(its, allSubComps) ==
    SortLoop(its, allSubComps, 0, [processed |-> {}, sortedComps |-> <<>>]).sortedComps

\* a relink loop that replaces no source
RelinkNothing(its, dupe, rl, dupeMap) == its

RECURSIVE Relink(_, _, _, _)
\* lines 266-271 and 281-286: relink the layers of dupe from layer rl on
Relink(its, dupe, rl, dupeMap) ==
    IF rl > Len(its[dupe].layers) THEN its
    ELSE LET layer == its[dupe].layers[rl] IN
         IF IsCompLayer(layer) /\ MapHas(dupeMap, its[layer.src].name)
         THEN Relink(HostReplaceSource(its, dupe, rl, dupeMap[its[layer.src].name]),
                     dupe, rl + 1, dupeMap)
         ELSE Relink(its, dupe, rl + 1, dupeMap)

\* a duplicate that stays in the folder of its original
DupeIntoSameFolder(its, original, langSuffix, folder, pass) ==
    LET dupe == Len(its) + 1
        its1 == HostDuplicate(its, original, pass)
    IN  [its1 EXCEPT ![dupe].name = its[original].name \o "_" \o langSuffix]

\* lines 260-263 and 275-278: duplicate, rename, move to a folder, record
DupeInto(its, original, langSuffix, folder, pass) ==
    LET dupe == Len(its) + 1
        its1 == HostDuplicate(its, original, pass)
    IN  [its1 EXCEPT ![dupe].name = its[original].name \o "_" \o langSuffix,
                     ![dupe].folder = folder]

RECURSIVE DupeSubComps(_, _, _, _, _, _)
\* step 3, lines 258-272: st carries the project and dupeMap
DupeSubComps(st, sortedComps, d, langSuffix, precompFolder, pass) ==
    IF d > Len(sortedComps) THEN st
    ELSE LET original == sortedComps[d]
             dupe     == Len(st.its) + 1
             its1     == DupeInto(st.its, original, langSuffix, precompFolder, pass)
             map1     == MapPut(st.dupeMap, st.its[original].name, dupe)
         IN  DupeSubComps([its |-> Relink(its1, dupe, 1, map1), dupeMap |-> map1],
                          sortedComps, d + 1, langSuffix, precompFolder, pass)

\* the whole function; the record returned holds the project after the
\* call, the dupeMap returned, and the intermediate lists
duplicateFullTree(its, masterComp, langSuffix, langFolder, precompFolder, pass) ==
    LET allSubComps == discoverAllSubComps(its, masterComp)
        sortedComps == TopoSort(its, allSubComps)
        subs        == DupeSubComps([its |-> its, dupeMap |-> EmptyMap], sortedComps, 1,
                                    langSuffix, precompFolder, pass)
        newMaster   == Len(subs.its) + 1
        its1        == DupeInto(subs.its, masterComp, langSuffix, langFolder, pass)
        map1        == MapPut(subs.dupeMap, its[masterComp].name, newMaster)
    IN  [its |-> Relink(its1, newMaster, 1, map1),
         dupeMap |-> map1,
         allSubComps |-> allSubComps,
         sortedComps |-> sortedComps,
         newMaster |-> newMaster]

(* ------------------------------------------------------------------ *)
(* The projects the script is run on                                   *)
(* ------------------------------------------------------------------ *)

CompIds == 1..NumComps

\* a layer: a text leaf, or a reference to a composition
LayerOptions == {TextLayer(LeafName, LeafValue)} \cup {CompLayer(d) : d \in CompIds}

\* the layers of a project, listed composition by composition: the owner
\* of each layer and the layer; the host does not let a composition be a
\* layer of itself
IsLayerList(f) ==
    /\ \A i \in DOMAIN f : f[i][2].src # f[i][1]
    /\ \A i \in DOMAIN f : i > 1 => f[i - 1][1] <= f[i][1]

RECURSIVE LayersOf(_, _, _)
\* the layers of composition c among f[i..], in order
LayersOf(f, c, i) ==
    IF i > Len(f) THEN <<>>
    ELSE IF f[i][1] = c THEN <<f[i][2]>> \o LayersOf(f, c, i + 1)
         ELSE LayersOf(f, c, i + 1)

\* item names are not unique in a project: the last composition may carry
\* the name of the second one
NameChoices == {OrigNames, [OrigNames EXCEPT ![NumComps] = OrigNames[2]]}

MkProject(f, nm) ==
    [c \in CompIds |-> [name |-> nm[c], folder |-> RootFolder, layers |-> LayersOf(f, c, 1),
                        orig |-> 0, pass |-> 0]]

\* its is one of the projects of at most max layers
IsProject(its, max) ==
    \E n \in 0..max : \E f \in [1..n -> CompIds \X LayerOptions] : \E nm \in NameChoices :
        IsLayerList(f) /\ its = MkProject(f, nm)

(* ------------------------------------------------------------------ *)
(* The reference graph, stated without the code's traversals           *)
(* ------------------------------------------------------------------ *)

\* the compositions that the layers of c reference
Children(its, c) ==
    {its[c].layers[i].src : i \in {j \in DOMAIN its[c].layers : IsCompLayer(its[c].layers[j])}}

RECURSIVE Closure(_, _)
Closure(its, S) ==
    LET T == S \cup UNION {Children(its, c) : c \in S}
    IN  IF T = S THEN S ELSE Closure(its, T)

\* the compositions reachable from c through one or more references
Reach(its, c) == Closure(its, Children(its, c))

\* some composition of S references one of its ancestors
CycleAmong(its, S) == \E c \in S : c \in Reach(its, c)

CyclicFrom(its, root) == CycleAmong(its, Reach(its, root) \cup {root})

\* the names of the compositions of S are pairwise different
UniqueNames(its, S) == \A c, d \in S : its[c].name = its[d].name => c = d

\* the compositions made by the duplicateFullTree call number p
DupesOfPass(its, p) == {d \in DOMAIN its : its[d].orig # 0 /\ its[d].pass = p}

\* the duplicates that call p made of the original c
DupesOf(its, c, p) == {d \in DupesOfPass(its, p) : its[d].orig = c}

(* ------------------------------------------------------------------ *)
(* The manifests the script is run on                                  *)
(* ------------------------------------------------------------------ *)

\* rows of the CSV file
MaxRows == 2

Locales == <<"en", "fr">>

\* the non-empty cell of a row in the column of a language
CellValue(lang) == CASE lang = "en" -> "Hi" [] lang = "fr" -> "Salut" [] OTHER -> "Text"

\* comp_name cells: two compositions of the project and one that is not in it
RootNames == {OrigNames[1], OrigNames[2], "Ghost"}

\* layer_name cells: the leaf of the project and a name no layer carries
RowLayerNames == {LeafName, "Missing"}

HeaderChoices == {reservedColumns \o Locales, reservedColumns}

\* the languages whose column is filled in the rows of a file
FillChoices == {{Locales[1]}, Range(Locales)}

\* a row of parseCSV: a value for every header
MkRow(headers, compName, layerName, fill) ==
    [h \in Range(headers) |->
        CASE h = "comp_name" -> compName
          [] h = "layer_name" -> layerName
          [] h = "type" -> "text"
          [] OTHER -> IF h \in fill THEN CellValue(h) ELSE ""]

\* the files with a defect that stops the run at once name the leaf in
\* every row, and the ones without a language column have one row
OneRowIfStopped(headers, cells) ==
    /\ headers = reservedColumns => Len(cells) = 1
    /\ (headers = reservedColumns \/ \E i \in DOMAIN cells : cells[i][1] \notin Range(OrigNames))
          => \A i \in DOMAIN cells : cells[i][2] = LeafName

\* d is a parsed CSV file of the bounds
IsManifest(d) ==
    \E headers \in HeaderChoices : \E n \in 1..MaxRows :
        \E cells \in [1..n -> RootNames \X RowLayerNames] : \E fill \in FillChoices :
            /\ OneRowIfStopped(headers, cells)
            /\ d = [headers |-> headers,
                    rows |-> [i \in 1..n |-> MkRow(headers, cells[i][1], cells[i][2], fill)]]

(* ------------------------------------------------------------------ *)
(* String conversions of the script, on the strings of the model       *)
(* ------------------------------------------------------------------ *)

\* String.toLowerCase()
toLowerCase(str) ==
    CASE str = "EN" -> "en" [] str = "FR" -> "fr" [] str = "EN-US" -> "en-us"
      [] str = "en-US" -> "en-us" [] str = "Type" -> "type"
      [] str = "Image" -> "image" [] OTHER -> str

\* String.toUpperCase()
toUpperCase(str) ==
    CASE str = "en" -> "EN" [] str = "fr" -> "FR" [] str = "en-US" -> "EN-US"
      [] str = "en-us" -> "EN-US" [] OTHER -> str

\* line 390: lang.toLowerCase().replace(/[^a-z0-9]/g, "_")
langSuffixOf(lang) ==
    LET low == toLowerCase(lang) IN IF low = "en-us" THEN "en_us" ELSE low

\* line 391: lang.toUpperCase().replace(/[^A-Z0-9\-]/g, "_")
langLabelOf(lang) == toUpperCase(lang)

(* ------------------------------------------------------------------ *)
(* detectLanguages  (batch-asset-replacer.jsx:104-115)                 *)
(* ------------------------------------------------------------------ *)

\* the test without its second half
IsNotReserved(h) == toLowerCase(h) \notin Range(reservedColumns)

\* line 112: !isReserved && headers[i] !== ""
IsLanguageHeader(h) == toLowerCase(h) \notin Range(reservedColumns) /\ h # ""

\* every header taken as a language
detectAllHeaders(headers) == headers

detectLanguages(headers) == SelectSeq(headers, IsLanguageHeader)

(* ------------------------------------------------------------------ *)
(* main  (batch-asset-replacer.jsx:293-467)                            *)
(* ------------------------------------------------------------------ *)

NoCall == [op |-> "none", master |-> 0, allSubComps |-> <<>>, sortedComps |-> <<>>,
           dupeMap |-> EmptyMap, newMaster |-> 0, pass |-> 0, result |-> "none"]

NoRun == [languages |-> <<>>, masterList |-> <<>>, compInfo |-> EmptyMap,
          layerCheck |-> <<>>, li |-> 0, m |-> 0, r |-> 0, langFolder |-> "",
          allDupes |-> EmptyMap,
          stats |-> [success |-> 0, skipped |-> 0, errors |-> 0], errorLog |-> <<>>,
          announced |-> [total |-> 0, inLangFolders |-> 0, inPrecomps |-> 0]]

NoHost == [folders |-> {}, undo |-> "none", files |-> {}]

NoData == [headers |-> <<>>, rows |-> <<>>]

NoHist(its) == [items0 |-> its, passes |-> <<>>, applied |-> <<>>]

NoFn == [op |-> "none"]

\* the Figma plugin is not open
NoFigma == [page |-> <<>>, selection |-> <<>>, inbox |-> <<>>, runs |-> <<>>]

\* the panel of the Project Cleanup Tool is not open
NoCleanup == [project |-> <<>>, projectData |-> [scanned |-> FALSE],
              dryRun |-> TRUE, protectSolids |-> TRUE, removals |-> <<>>]

OutputFolder == findOrCreateFolder(outputFolderName, "")

PrecompFolder == findOrCreateFolder(precompFolderName, OutputFolder)

RECURSIVE UniqueInOrder(_, _, _)
\* lines 314-322: the comp_name cells in the order of their first row
UniqueInOrder(rows, i, acc) ==
    IF i > Len(rows) THEN acc
    ELSE IF rows[i]["comp_name"] \in Range(acc)
         THEN UniqueInOrder(rows, i + 1, acc)
         ELSE UniqueInOrder(rows, i + 1, Append(acc, rows[i]["comp_name"]))

MasterList(rows) == UniqueInOrder(rows, 1, <<>>)

\* lines 325-336: comp and subComps of every master; comp is 0 for a name
\* that findComp does not find
CompInfo(its, masterList) ==
    [name \in Range(masterList) |->
        LET comp == findComp(its, name) IN
        [comp |-> comp,
         subComps |-> IF comp = 0 THEN <<>> ELSE discoverAllSubComps(its, comp)]]

\* lines 340-347: findLayerDeep for every row on the original tree
PreCheck(its, rows, compInfo) ==
    [lc \in DOMAIN rows |->
        findLayerDeep(its, compInfo[rows[lc]["comp_name"]].comp, rows[lc]["layer_name"])]

\* the compositions that own layers are the ones the file names and the
\* ones in their trees
NoIdleLayers(its, d) ==
    LET roots == {findComp(its, d.rows[i]["comp_name"]) : i \in DOMAIN d.rows} \ {0}
        used  == roots \cup UNION {Closure(its, {c}) : c \in roots}
    IN  \A c \in DOMAIN its : its[c].layers # <<>> => c \in used

RunInit ==
    /\ IsProject(items, MaxRunLayers)
    /\ IsManifest(data)
    /\ NoIdleLayers(items, data)
    /\ pc = "start"
    /\ call = NoCall
    /\ run = NoRun
    /\ host = NoHost
    /\ hist = NoHist(items)
    /\ fn = NoFn
    /\ figma = NoFigma
    /\ cleanup = NoCleanup

\* lines 303-311: no language column, alert and return
NoLanguages ==
    /\ pc = "start"
    /\ Len(detectLanguages(data.headers)) = 0
    /\ pc' = "returned"
    /\ UNCHANGED <<items, call, data, run, host, hist, fn, figma, cleanup>>

\* lines 303-332: a comp_name that findComp does not find, alert and return
CompNotFound ==
    /\ pc = "start"
    /\ Len(detectLanguages(data.headers)) # 0
    /\ LET masterList == MasterList(data.rows) IN
       /\ \E ci \in DOMAIN masterList : findComp(items, masterList[ci]) = 0
       /\ run' = [run EXCEPT !.languages = detectLanguages(data.headers),
                             !.masterList = masterList]
    /\ pc' = "returned"
    /\ UNCHANGED <<items, call, data, host, hist, fn, figma, cleanup>>

\* lines 303-347 when findLayerDeep of the pre-check never returns
PreCheckOverflow ==
    /\ pc = "start"
    /\ Len(detectLanguages(data.headers)) # 0
    /\ LET masterList == MasterList(data.rows)
           compInfo   == CompInfo(items, masterList)
       IN  /\ \A ci \in DOMAIN masterList : compInfo[masterList[ci]].comp # 0
           /\ \E lc \in DOMAIN data.rows :
                 PreCheck(items, data.rows, compInfo)[lc].status = "overflow"
           /\ run' = [run EXCEPT !.languages = detectLanguages(data.headers),
                                 !.masterList = masterList, !.compInfo = compInfo]
    /\ pc' = "crashed"
    /\ UNCHANGED <<items, call, data, host, hist, fn, figma, cleanup>>

RECURSIVE TotalSubComps(_, _, _)
\* lines 326-335: totalSubComps after the masters from ci on
TotalSubComps(compInfo, masterList, ci) ==
    IF ci > Len(masterList) THEN 0
    ELSE Len(compInfo[masterList[ci]].subComps) + TotalSubComps(compInfo, masterList, ci + 1)

RECURSIVE TotalNewComps(_, _, _, _)
\* lines 370-373: totalNewComps after the masters from tc on
TotalNewComps(compInfo, masterList, languages, tc) ==
    IF tc > Len(masterList) THEN 0
    ELSE (1 + Len(compInfo[masterList[tc]].subComps)) * Len(languages)
             + TotalNewComps(compInfo, masterList, languages, tc + 1)

\* lines 374-375: the numbers of the last lines of the confirmation message
Announced(compInfo, masterList, languages) ==
    [total |-> TotalNewComps(compInfo, masterList, languages, 1),
     inLangFolders |-> Len(masterList) * Len(languages),
     inPrecomps |-> TotalSubComps(compInfo, masterList, 1) * Len(languages)]

\* lines 303-376: parse, validate, discover, pre-check, build the message
Prepare ==
    /\ pc = "start"
    /\ Len(detectLanguages(data.headers)) # 0
    /\ LET masterList == MasterList(data.rows)
           compInfo   == CompInfo(items, masterList)
           checks     == PreCheck(items, data.rows, compInfo)
       IN  /\ \A ci \in DOMAIN masterList : compInfo[masterList[ci]].comp # 0
           /\ \A lc \in DOMAIN data.rows : checks[lc].status # "overflow"
           /\ run' = [run EXCEPT !.languages = detectLanguages(data.headers),
                                 !.masterList = masterList, !.compInfo = compInfo,
                                 !.layerCheck = SelectSeq([lc \in DOMAIN data.rows |-> lc],
                                                    LAMBDA lc : checks[lc].status = "null"),
                                 !.announced = Announced(compInfo, masterList,
                                                         detectLanguages(data.headers))]
    /\ pc' = "confirm"
    /\ UNCHANGED <<items, call, data, host, hist, fn, figma, cleanup>>

\* line 378: the user answers no
ConfirmCancel ==
    /\ pc = "confirm"
    /\ pc' = "returned"
    /\ UNCHANGED <<items, call, data, run, host, hist, fn, figma, cleanup>>

\* lines 378-386: the user answers yes
ConfirmProceed ==
    /\ pc = "confirm"
    /\ host' = [host EXCEPT !.undo = "open",
                            !.folders = @ \cup {OutputFolder, PrecompFolder}]
    /\ run' = [run EXCEPT !.li = 1,
                          !.stats = [success |-> 0, skipped |-> 0, errors |-> 0],
                          !.errorLog = <<>>]
    /\ pc' = "language"
    /\ UNCHANGED <<items, call, data, hist, fn, figma, cleanup>>

\* a head of the language loop that goes to the rows at once
StartLanguageNoTrees ==
    /\ pc = "language"
    /\ run.li <= Len(run.languages)
    /\ LET langFolder == findOrCreateFolder(langLabelOf(run.languages[run.li]), OutputFolder) IN
       /\ host' = [host EXCEPT !.folders = @ \cup {langFolder}]
       /\ run' = [run EXCEPT !.langFolder = langFolder, !.allDupes = EmptyMap,
                             !.m = 1, !.r = 1]
    /\ pc' = IF Len(data.rows) > 0 THEN "rows" ELSE "language"
    /\ UNCHANGED <<items, call, data, hist, fn, figma, cleanup>>

\* lines 388-398: the head of the language loop
StartLanguage ==
    /\ pc = "language"
    /\ run.li <= Len(run.languages)
    /\ LET langFolder == findOrCreateFolder(langLabelOf(run.languages[run.li]), OutputFolder) IN
       /\ host' = [host EXCEPT !.folders = @ \cup {langFolder}]
       /\ run' = [run EXCEPT !.langFolder = langFolder, !.allDupes = EmptyMap,
                             !.m = 1, !.r = 1]
    /\ pc' = IF Len(run.masterList) > 0 THEN "trees"
             ELSE IF Len(data.rows) > 0 THEN "rows" ELSE "language"
    /\ UNCHANGED <<items, call, data, hist, fn, figma, cleanup>>

\* lines 402-404: copy every key of dupeMap into allDupes
MergeMaps(allDupes, dupeMap) ==
    [key \in DOMAIN allDupes \cup DOMAIN dupeMap |->
        IF key \in DOMAIN dupeMap THEN dupeMap[key] ELSE allDupes[key]]

\* lines 399-405: one turn of the loop over masterList
DuplicateTrees ==
    /\ pc = "trees"
    /\ LET lang  == run.languages[run.li]
           mComp == run.compInfo[run.masterList[run.m]].comp
           pass  == Len(hist.passes) + 1
           res   == duplicateFullTree(items, mComp, langSuffixOf(lang),
                                      run.langFolder, PrecompFolder, pass)
       IN  /\ items' = res.its
           /\ call' = [op |-> "duplicate", master |-> mComp,
                       allSubComps |-> res.allSubComps, sortedComps |-> res.sortedComps,
                       dupeMap |-> res.dupeMap, newMaster |-> res.newMaster,
                       pass |-> pass, result |-> "returned"]
           /\ run' = [run EXCEPT !.allDupes = MergeMaps(@, res.dupeMap), !.m = @ + 1]
           /\ hist' = [hist EXCEPT !.passes = Append(@, [lang |-> lang, master |-> mComp,
                                                        newMaster |-> res.newMaster])]
    /\ pc' = IF run.m < Len(run.masterList) THEN "trees"
             ELSE IF Len(data.rows) > 0 THEN "rows" ELSE "language"
    /\ UNCHANGED <<data, host, fn, figma, cleanup>>

IsEmptyCellNever(value) == FALSE

\* line 413: !value || value === ""
IsEmptyCell(value) == value = ""

\* what line 408-443 do for one row: the counter that goes up, the entry
\* for the error log, the project after the row
RowOutcome(its, row, lang, allDupes, files) ==
    LET compName  == row["comp_name"]
        layerName == row["layer_name"]
        type      == toLowerCase(IF row["type"] = "" THEN "text" ELSE row["type"])
        value     == row[lang]
    IN  IF IsEmptyCell(value)
        THEN [counter |-> "skipped", log |-> "", its |-> its, dupeMaster |-> 0,
              comp |-> 0, layer |-> 0]
        ELSE IF ~MapHas(allDupes, compName)
        THEN [counter |-> "errors", its |-> its, dupeMaster |-> 0, comp |-> 0, layer |-> 0,
              log |-> "[" \o lang \o "] Comp not found: '" \o compName \o "'"]
        ELSE LET dupeMaster  == allDupes[compName]
                 foundResult == findLayerDeep(its, dupeMaster, layerName)
             IN  IF foundResult.status = "overflow"
                 THEN [counter |-> "overflow", log |-> "", its |-> its,
                       dupeMaster |-> dupeMaster, comp |-> 0, layer |-> 0]
                 ELSE IF foundResult.status = "null"
                 THEN [counter |-> "errors", its |-> its, dupeMaster |-> dupeMaster,
                       comp |-> 0, layer |-> 0,
                       log |-> "[" \o lang \o "] Layer '" \o layerName \o "' not found in tree"]
                 ELSE LET rep == IF type = "footage" \/ type = "image"
                                 THEN replaceFootage(its, foundResult.comp, foundResult.layer,
                                                     value, files)
                                 ELSE replaceText(its, foundResult.comp, foundResult.layer,
                                                  value)
                      IN
                      IF rep.ok
                      THEN [counter |-> "success", log |-> "", its |-> rep.its,
                            dupeMaster |-> dupeMaster, comp |-> foundResult.comp,
                            layer |-> foundResult.layer]
                      ELSE [counter |-> "errors", its |-> rep.its, dupeMaster |-> dupeMaster,
                            comp |-> foundResult.comp, layer |-> foundResult.layer,
                            log |-> "[" \o lang \o "] Failed: '" \o layerName \o "' in '"
                                    \o its[foundResult.comp].name \o "' (" \o type \o ")"]

\* lines 420, 428, 440: an entry goes into the error log while it holds
\* fewer than 20
LogErrorAlways(errorLog, entry) == Append(errorLog, entry)

LogError(errorLog, entry) ==
    IF Len(errorLog) < 20 THEN Append(errorLog, entry) ELSE errorLog

\* a count that leaves the failures out
CountNoErrors(stats, counter) ==
    IF counter = "errors" THEN stats ELSE [stats EXCEPT ![counter] = @ + 1]

\* lines 413, 421, 429, 437, 441: stats.skipped++, stats.errors++, stats.success++
Count(stats, counter) == [stats EXCEPT ![counter] = @ + 1]

\* lines 408-443: one turn of the loop over data.rows
ApplyRow ==
    /\ pc = "rows"
    /\ LET lang == run.languages[run.li]
           out  == RowOutcome(items, data.rows[run.r], lang, run.allDupes, host.files)
       IN  /\ items' = out.its
           /\ hist' = [hist EXCEPT !.applied = Append(@, [lang |-> lang, r |-> run.r,
                                      counter |-> out.counter, dupeMaster |-> out.dupeMaster,
                                      comp |-> out.comp, layer |-> out.layer])]
           /\ IF out.counter = "overflow"
              THEN /\ pc' = "crashed"
                   /\ run' = run
              ELSE /\ run' = [run EXCEPT
                         !.stats = Count(@, out.counter),
                         !.errorLog = IF out.counter = "errors"
                                      THEN LogError(@, out.log) ELSE @,
                         !.r = IF run.r < Len(data.rows) THEN @ + 1 ELSE 1,
                         !.li = IF run.r < Len(data.rows) THEN @ ELSE @ + 1]
                   /\ pc' = IF run.r < Len(data.rows) THEN "rows" ELSE "language"
    /\ UNCHANGED <<call, data, host, fn, figma, cleanup>>

\* lines 446-466: after the last language
Finish ==
    /\ pc = "language"
    /\ run.li > Len(run.languages)
    /\ host' = [host EXCEPT !.undo = "closed"]
    /\ pc' = "done"
    /\ UNCHANGED <<items, call, data, run, hist, fn, figma, cleanup>>

Next ==
    \/ NoLanguages
    \/ CompNotFound
    \/ PreCheckOverflow
    \/ Prepare
    \/ ConfirmCancel
    \/ ConfirmProceed
    \/ StartLanguage
    \/ DuplicateTrees
    \/ ApplyRow
    \/ Finish

vars == <<items, pc, call, data, run, host, hist, fn, figma, cleanup>>

Spec == RunInit /\ [][Next]_vars

(* ------------------------------------------------------------------ *)
(* Calls of the tree functions on a project                            *)
(* ------------------------------------------------------------------ *)

TreeInit ==
    /\ IsProject(items, MaxLayers)
    /\ pc = "idle"
    /\ call = NoCall
    /\ data = NoData
    /\ run = NoRun
    /\ host = NoHost
    /\ hist = NoHist(items)
    /\ fn = NoFn
    /\ figma = NoFigma
    /\ cleanup = NoCleanup

\* discoverAllSubComps(root) returns its array; the code has no other outcome
CallDiscover(root) ==
    /\ pc = "idle"
    /\ call' = [NoCall EXCEPT !.op = "discover", !.master = root,
                              !.allSubComps = discoverAllSubComps(items, root),
                              !.result = "returned"]
    /\ pc' = "discovered"
    /\ UNCHANGED <<items, data, run, host, hist, fn, figma, cleanup>>

\* duplicateFullTree(master, "en", EN folder, _PRECOMPS folder)
CallDuplicateFullTree(master) ==
    /\ pc = "discovered"
    /\ call.master = master
    /\ LET res == duplicateFullTree(items, master, langSuffixOf("en"),
                      findOrCreateFolder(langLabelOf("en"), OutputFolder), PrecompFolder, 1)
       IN  /\ items' = res.its
           /\ call' = [op |-> "duplicate", master |-> master,
                       allSubComps |-> res.allSubComps, sortedComps |-> res.sortedComps,
                       dupeMap |-> res.dupeMap, newMaster |-> res.newMaster,
                       pass |-> 1, result |-> "returned"]
    /\ pc' = "duplicated"
    /\ UNCHANGED <<data, run, host, hist, fn, figma, cleanup>>

TreeNext ==
    \/ \E root \in CompIds : CallDiscover(root)
    \/ \E master \in CompIds : CallDuplicateFullTree(master)

SpecTree == TreeInit /\ [][TreeNext]_vars

(* ------------------------------------------------------------------ *)
(* Claims on discoverAllSubComps and duplicateFullTree (SpecTree)      *)
(* ------------------------------------------------------------------ *)

\* C1: after duplicateFullTree returns, every layer of a duplicate it made
\* whose slot in the original references a composition of the discovered
\* subtree has as source the duplicate of that composition made in the
\* same call, never the original.
C1_NoReferenceToOriginal ==
    pc = "duplicated" =>
        \A d \in DupesOfPass(items, call.pass) : \A i \in DOMAIN items[d].layers :
            LET D == items[items[d].orig].layers[i].src IN
            (IsCompLayer(items[d].layers[i]) /\ D \in Range(call.allSubComps))
                => items[d].layers[i].src \in DupesOf(items, D, call.pass)

\* C3: the duplicate tree is isomorphic to the original: the master and
\* every discovered sub-comp have exactly one duplicate each, and slot i of
\* the duplicate of C holds a leaf where C holds a leaf and the duplicate
\* of D where C references D.
C3_Isomorphic ==
    pc = "duplicated" =>
        LET tree == Range(call.allSubComps) \cup {call.master} IN
        /\ \A C \in tree : Cardinality(DupesOf(items, C, call.pass)) = 1
        /\ \A d \in DupesOfPass(items, call.pass) :
              /\ items[d].orig \in tree
              /\ Len(items[d].layers) = Len(items[items[d].orig].layers)
              /\ \A i \in DOMAIN items[d].layers :
                    LET o == items[items[d].orig].layers[i] IN
                    IF IsCompLayer(o)
                    THEN /\ IsCompLayer(items[d].layers[i])
                         /\ items[d].layers[i].src \in DupesOf(items, o.src, call.pass)
                    ELSE items[d].layers[i] = o

\* C4: for an acyclic discovered set, sortedComps is a permutation of
\* allSubComps in which every referenced composition comes strictly before
\* the composition that references it.
C4_OrderIsTopological ==
    (pc = "duplicated" /\ ~CycleAmong(items, Range(call.allSubComps))) =>
        /\ Len(call.sortedComps) = Len(call.allSubComps)
        /\ Range(call.sortedComps) = Range(call.allSubComps)
        /\ \A i, j \in DOMAIN call.sortedComps :
              call.sortedComps[i] \in Children(items, call.sortedComps[j]) => i < j

\* C5: when the discovered set has a reference cycle the ordering step
\* fails with CyclicReference and the duplication step is not entered.
C5_OrderFailsOnCycle ==
    (pc = "duplicated" /\ CycleAmong(items, Range(call.allSubComps))) =>
        /\ call.result = "CyclicReference"
        /\ DupesOfPass(items, call.pass) = {}

\* C6: discoverAllSubComps on a graph with a cycle fails with
\* CyclicReference instead of returning a result.
C6_DiscoverFailsOnCycle ==
    (pc = "discovered" /\ CyclicFrom(items, call.master)) =>
        call.result = "CyclicReference"

\* C7: on an acyclic graph discoverAllSubComps(root) returns exactly the
\* compositions reachable from root through one or more references, each
\* once, and not the root.
C7_DiscoverExact ==
    (pc = "discovered" /\ ~CyclicFrom(items, call.master)) =>
        /\ Range(call.allSubComps) = Reach(items, call.master)
        /\ Cardinality(Range(call.allSubComps)) = Len(call.allSubComps)
        /\ call.master \notin Range(call.allSubComps)

\* a sub-comp two levels down that two different parents reference
C7_Witness ==
    /\ pc = "discovered"
    /\ ~CyclicFrom(items, call.master)
    /\ \E s, t \in Range(call.allSubComps) :
          /\ s # t
          /\ t \in Children(items, s)
          /\ t \in Children(items, call.master)
          /\ s \in Children(items, call.master)

(* ------------------------------------------------------------------ *)
(* Claims on a run of main (Spec)                                      *)
(* ------------------------------------------------------------------ *)

\* the original compositions that the rows name
ManifestRoots == {findComp(hist.items0, data.rows[i]["comp_name"]) : i \in DOMAIN data.rows} \ {0}

\* the folder of the root duplicates of a language
LangFolderOf(lang) == findOrCreateFolder(langLabelOf(lang), OutputFolder)

\* the duplicates of manifest roots that the calls for lang returned as newMaster
RootDupesOf(lang) ==
    {hist.passes[p].newMaster : p \in {q \in DOMAIN hist.passes : hist.passes[q].lang = lang}}

\* the compositions of the trees under the root duplicates of lang
DupeTreeOf(lang) == Closure(items, RootDupesOf(lang))

\* C2: a full run leaves every original composition reachable from a
\* manifest root as it was: layers with their sources and values, name, folder.
C2_OriginalsUntouched ==
    pc = "done" =>
        \A c \in Closure(hist.items0, ManifestRoots) : items[c] = hist.items0[c]

\* C8: every row with a value for language L is searched in the duplicate
\* of the row's own root that was made for L and put in L's folder.
C8_SearchInOwnRootDupe ==
    \A k \in DOMAIN hist.applied :
        LET a    == hist.applied[k]
            root == findComp(hist.items0, data.rows[a.r]["comp_name"])
        IN  a.counter # "skipped" =>
               /\ a.dupeMaster \in RootDupesOf(a.lang)
               /\ items[a.dupeMaster].orig = root
               /\ items[a.dupeMaster].folder = LangFolderOf(a.lang)

\* C9: after the run every leaf in the duplicate tree of a language M holds
\* the original's value or the value of M's column.
C9_NoValueOfOtherLocale ==
    pc = "done" =>
        \A li \in DOMAIN run.languages :
            \A c \in DupeTreeOf(run.languages[li]) : \A i \in DOMAIN items[c].layers :
                items[c].layers[i].kind = "text" =>
                    items[c].layers[i].value \in {LeafValue, CellValue(run.languages[li])}

\* the scenario of C10: Main references Sub, Sub holds Headline = "Hello",
\* one text row (Main, Headline) with en = "Hi" and fr empty
C10_Scenario ==
    /\ hist.items0 = MkProject(<< <<1, CompLayer(2)>>, <<2, TextLayer("Headline", "Hello")>> >>,
                               OrigNames)
    /\ data = [headers |-> reservedColumns \o <<"en", "fr">>,
               rows |-> << MkRow(reservedColumns \o <<"en", "fr">>, "Main", "Headline", {"en"}) >>]

\* C10: the end-to-end scenario ends with Main_en -> Sub_en (Headline "Hi"),
\* Main_fr -> Sub_fr (Headline "Hello"), the original Headline "Hello" and
\* applied = 1, skipped = 1, failed = 0.
C10_EndToEnd ==
    (pc = "done" /\ C10_Scenario) =>
        /\ \E me, se, mf, sf \in DOMAIN items :
              /\ items[me].name = "Main_en" /\ items[se].name = "Sub_en"
              /\ items[mf].name = "Main_fr" /\ items[sf].name = "Sub_fr"
              /\ items[me].layers = <<CompLayer(se)>>
              /\ items[mf].layers = <<CompLayer(sf)>>
              /\ items[se].layers = <<TextLayer("Headline", "Hi")>>
              /\ items[sf].layers = <<TextLayer("Headline", "Hello")>>
        /\ items[2].layers = <<TextLayer("Headline", "Hello")>>
        /\ items[1].layers = <<CompLayer(2)>>
        /\ run.stats = [success |-> 1, skipped |-> 1, errors |-> 0]

C10_Witness == pc = "done" /\ C10_Scenario



\* the original composition that row r names
RowRoot(r) == findComp(hist.items0, data.rows[r]["comp_name"])

\* no layer of the original tree under the root of row r has the row's layer_name
LeafAbsent(r) ==
    \A c \in Closure(hist.items0, {RowRoot(r)}) : \A i \in DOMAIN hist.items0[c].layers :
        LayerName(hist.items0, hist.items0[c].layers[i]) # data.rows[r]["layer_name"]

\* the step is the turn of the row loop for a row whose leaf is absent from
\* its root's tree and whose cell for the language is not empty
MissingLeafTurn ==
    /\ pc = "rows"
    /\ LeafAbsent(run.r)
    /\ data.rows[run.r][run.languages[run.li]] # ""

\* C11: a row that names a leaf absent from its root's tree, with a value
\* for the language, raises failed by one and nothing else, appends one
\* entry for that language and leaf to the error log while the log is under
\* its cap, changes no layer of any composition, and the loop goes on.
C11_MissingLeafFails ==
    [][MissingLeafTurn =>
         /\ run'.stats = [run.stats EXCEPT !.errors = @ + 1]
         /\ Len(run.errorLog) < 20 =>
               run'.errorLog = Append(run.errorLog,
                   "[" \o run.languages[run.li] \o "] Layer '"
                       \o data.rows[run.r]["layer_name"] \o "' not found in tree")
         /\ items' = items
         /\ pc' \in {"rows", "language"}]_vars
\* the step is the turn of the row loop for a row whose cell for the
\* language is empty; parseCSV gives "" to a row that has fewer fields than
\* there are headers
EmptyCellTurn ==
    /\ pc = "rows"
    /\ data.rows[run.r][run.languages[run.li]] = ""

\* C12: a row whose cell for the language is empty or absent is not applied:
\* skipped goes up by one, applied and failed stay, the error log stays and
\* no layer of any composition changes.
C12_EmptyCellSkipped ==
    [][EmptyCellTurn =>
         /\ run'.stats = [run.stats EXCEPT !.skipped = @ + 1]
         /\ run'.errorLog = run.errorLog
         /\ items' = items]_vars

\* the row of a root whose tree holds the leaf has been skipped for fr, after
\* the same row was applied for en
C12_Witness ==
    \E k, n \in DOMAIN hist.applied :
        /\ hist.applied[k].counter = "skipped"
        /\ hist.applied[k].lang = "fr"
        /\ ~LeafAbsent(hist.applied[k].r)
        /\ hist.applied[n].counter = "success"
        /\ hist.applied[n].r = hist.applied[k].r
        /\ run.stats.skipped > 0
(* ------------------------------------------------------------------ *)
(* Runs on files with many failing rows                                *)
(* ------------------------------------------------------------------ *)

\* rows of the long CSV files
MaxLogRows == 11

\* d has up to MaxLogRows rows for the root Main: the first k name a layer
\* that the tree does not have, the others name the leaf of Sub
IsLongManifest(d) ==
    \E n \in 1..MaxLogRows : \E k \in 0..n : \E fill \in FillChoices :
        LET headers == reservedColumns \o Locales IN
        d = [headers |-> headers,
             rows |-> [i \in 1..n |->
                 MkRow(headers, "Main", IF i <= k THEN "Missing" ELSE LeafName, fill)]]

\* the project of the runs: Main references Sub, Sub holds the leaf
LogInit ==
    /\ items = MkProject(<< <<1, CompLayer(2)>>, <<2, TextLayer(LeafName, LeafValue)>> >>,
                         OrigNames)
    /\ IsLongManifest(data)
    /\ pc = "start"
    /\ call = NoCall
    /\ run = NoRun
    /\ host = NoHost
    /\ hist = NoHist(items)
    /\ fn = NoFn
    /\ figma = NoFigma
    /\ cleanup = NoCleanup

LogNext ==
    \/ Prepare
    \/ ConfirmCancel
    \/ ConfirmProceed
    \/ StartLanguage
    \/ DuplicateTrees
    \/ ApplyRow
    \/ Finish

SpecLog == LogInit /\ [][LogNext]_vars

\* C13: in every state of a run the error log holds at most 20 entries and
\* as many entries as errors have been counted, up to 20.
C13_LogCapped ==
    /\ Len(run.errorLog) <= 20
    /\ Len(run.errorLog) = IF run.stats.errors < 20 THEN run.stats.errors ELSE 20

\* more than 20 rows have failed and the log holds 20 entries
C13_Witness ==
    /\ run.stats.errors > 20
    /\ Len(run.errorLog) = 20
(* ------------------------------------------------------------------ *)
(* Calls of findLayerDeep on a project                                 *)
(* ------------------------------------------------------------------ *)

\* the names searched: the leaf's, one no layer has, and one that the
\* layers referencing the composition Sub carry
SearchNames == {LeafName, "Missing", "Sub"}

FindInit ==
    /\ IsProject(items, MaxLayers)
    /\ pc = "idle"
    /\ call = NoCall
    /\ data = NoData
    /\ run = NoRun
    /\ host = NoHost
    /\ hist = NoHist(items)
    /\ fn = NoFn
    /\ figma = NoFigma
    /\ cleanup = NoCleanup

\* findLayerDeep(root, layerName): a result, null, or the stack overflow
\* of a recursion without end
CallFindLayerDeep(root, layerName) ==
    /\ pc = "idle"
    /\ fn' = [op |-> "findLayerDeep", comp |-> root, layerName |-> layerName,
              result |-> findLayerDeep(items, root, layerName)]
    /\ pc' = "searched"
    /\ UNCHANGED <<items, call, data, run, host, hist, figma, cleanup>>

FindNext ==
    \E root \in CompIds : \E layerName \in SearchNames : CallFindLayerDeep(root, layerName)

SpecFind == FindInit /\ [][FindNext]_vars

(* ------------------------------------------------------------------ *)
(* Claims on findLayerDeep (SpecFind)                                  *)
(* ------------------------------------------------------------------ *)

\* the indexes of the layers of c that carry the name
NamedLayers(its, c, layerName) ==
    {i \in DOMAIN its[c].layers : LayerName(its, its[c].layers[i]) = layerName}

\* some layer of c or of a composition below c carries the name
SubtreeHas(its, c, layerName) ==
    \E d \in Closure(its, {c}) : NamedLayers(its, d, layerName) # {}

\* the indexes of the layers of c that reference a composition whose subtree
\* has a layer with the name
MatchingChildren(its, c, layerName) ==
    {j \in DOMAIN its[c].layers :
        IsCompLayer(its[c].layers[j]) /\ SubtreeHas(its, its[c].layers[j].src, layerName)}

\* C14: findLayerDeep is first-match: with a direct layer of the name it
\* returns the lowest-indexed one with root as owner, whatever lies deeper;
\* otherwise it returns what the same search returns in the first child
\* composition, in layer order, whose subtree has a match; it returns null
\* only when no layer of the reachable tree has the name.
C14_FirstMatch ==
    (pc = "searched" /\ fn.op = "findLayerDeep") =>
        LET direct   == NamedLayers(items, fn.comp, fn.layerName)
            children == MatchingChildren(items, fn.comp, fn.layerName)
        IN  /\ direct # {} =>
                  fn.result = [status |-> "found", comp |-> fn.comp,
                               layer |-> CHOOSE i \in direct : \A k \in direct : i <= k]
            /\ (direct = {} /\ children # {}) =>
                  LET first == CHOOSE j \in children : \A k \in children : j <= k IN
                  /\ fn.result.status = "found"
                  /\ fn.result = findLayerDeep(items, items[fn.comp].layers[first].src,
                                               fn.layerName)
            /\ fn.result.status = "null" => ~SubtreeHas(items, fn.comp, fn.layerName)

\* C15: findLayerDeep matches leaves only: it never returns a layer that
\* references a composition, also when such a layer of the searched
\* composition carries the name.
C15_LeavesOnly ==
    (pc = "searched" /\ fn.op = "findLayerDeep" /\ fn.result.status = "found") =>
        ~IsCompLayer(items[fn.result.comp].layers[fn.result.layer])
(* ------------------------------------------------------------------ *)
(* Claims on a run of main (Spec), continued                           *)
(* ------------------------------------------------------------------ *)

\* the compositions that lie in the folder of a language
InLangFolder(lang) == {c \in DOMAIN items : items[c].folder = LangFolderOf(lang)}

\* C16: after a run every composition in the folder of a language is the
\* duplicate of a manifest root made for that language, every duplicate of
\* a composition that is not a manifest root lies in _PRECOMPS, and the
\* folder of a language holds exactly one duplicate of every manifest root.
C16_FoldersHoldRootDupes ==
    pc = "done" =>
        /\ \A li \in DOMAIN run.languages :
              LET lang == run.languages[li] IN
              /\ \A c \in InLangFolder(lang) :
                    /\ c \in RootDupesOf(lang)
                    /\ items[c].orig \in ManifestRoots
              /\ \A root \in ManifestRoots :
                    Cardinality({c \in InLangFolder(lang) : items[c].orig = root}) = 1
        /\ \A d \in DOMAIN items :
              (items[d].orig # 0 /\ items[d].orig \notin ManifestRoots)
                  => items[d].folder = PrecompFolder

\* a run on two roots, one of which the other references, has ended: the
\* folder of en holds the two root duplicates and _PRECOMPS holds duplicates
C16_Witness ==
    /\ pc = "done"
    /\ Cardinality(ManifestRoots) = 2
    /\ Cardinality(InLangFolder("en")) = 2
    /\ \E d \in DOMAIN items : items[d].orig # 0 /\ items[d].folder = PrecompFolder
    /\ \E d \in DOMAIN items : items[d].orig \notin ManifestRoots \cup {0}
\* the header of the file has no column besides the reserved ones
NoLocaleColumn == \A i \in DOMAIN data.headers : data.headers[i] \in Range(reservedColumns)

\* some row names a root that no composition of the project is called
RootMissing ==
    \E r \in DOMAIN data.rows : \A c \in DOMAIN hist.items0 :
        hist.items0[c].name # data.rows[r]["comp_name"]

\* C17: with no language column in the file, or with a row whose root name
\* matches no composition, the run stops before it changes anything: no
\* folder and no composition is created, no undo group is opened and every
\* layer is as it was.
C17_StopsBeforeMutation ==
    (NoLocaleColumn \/ RootMissing) =>
        /\ pc \in {"start", "returned"}
        /\ items = hist.items0
        /\ host = NoHost

\* the run has returned on a file with language columns whose row names a
\* root that does not exist, in a project that has the leaf
C17_Witness ==
    /\ pc = "returned"
    /\ ~NoLocaleColumn
    /\ RootMissing
    /\ run.masterList = <<"Main", "Ghost">>
    /\ \E c \in DOMAIN items : items[c].layers # <<>>
(* ------------------------------------------------------------------ *)
(* Calls of detectLanguages on a header list                           *)
(* ------------------------------------------------------------------ *)

\* columns of a header
MaxHeaders == 3

\* the headers of the files: the reserved names, one of them with a capital,
\* two languages, and the empty header of a line that ends with a comma
HeaderUniverse == {"comp_name", "layer_name", "type", "Type", "en", "fr", ""}

HeadersInit ==
    /\ \E n \in 0..MaxHeaders : \E headers \in [1..n -> HeaderUniverse] :
          data = [headers |-> headers, rows |-> <<>>]
    /\ items = <<>>
    /\ pc = "idle"
    /\ call = NoCall
    /\ run = NoRun
    /\ host = NoHost
    /\ hist = NoHist(items)
    /\ fn = NoFn
    /\ figma = NoFigma
    /\ cleanup = NoCleanup

\* lines 304-311: languages = detectLanguages(data.headers), and the alert
\* of main when there is none
CallDetectLanguages ==
    /\ pc = "idle"
    /\ LET languages == detectLanguages(data.headers) IN
       fn' = [op |-> "detectLanguages", result |-> languages,
              alert |-> IF Len(languages) = 0 THEN "NoLocaleColumns" ELSE "none"]
    /\ pc' = "detected"
    /\ UNCHANGED <<items, call, data, run, host, hist, figma, cleanup>>

HeadersNext == CallDetectLanguages

SpecHeaders == HeadersInit /\ [][HeadersNext]_vars

\* result holds the headers at the indexes keep, in their order
HoldsInOrder(result, headers, keep) ==
    /\ Len(result) = Cardinality(keep)
    /\ \A k \in DOMAIN result :
          result[k] = headers[CHOOSE i \in keep : Cardinality({j \in keep : j <= i}) = k]

\* C18 as stated: detectLanguages returns exactly the headers that are not a
\* reserved column name (in any case), once per occurrence and in header
\* order, and the caller reports NoLocaleColumns when there is none.
C18_AllNonReserved ==
    (pc = "detected" /\ fn.op = "detectLanguages") =>
        /\ HoldsInOrder(fn.result, data.headers,
               {i \in DOMAIN data.headers :
                   toLowerCase(data.headers[i]) \notin {"comp_name", "layer_name", "type"}})
        /\ fn.alert = "NoLocaleColumns" <=> fn.result = <<>>

\* C18, amended: detectLanguages returns exactly the non-empty headers that
\* are not a reserved column name (in any case), once per occurrence and in
\* header order, and the caller reports NoLocaleColumns when there is none.
C18_NonEmptyNonReserved ==
    (pc = "detected" /\ fn.op = "detectLanguages") =>
        /\ HoldsInOrder(fn.result, data.headers,
               {i \in DOMAIN data.headers :
                   /\ data.headers[i] # ""
                   /\ toLowerCase(data.headers[i]) \notin {"comp_name", "layer_name", "type"}})
        /\ fn.alert = "NoLocaleColumns" <=> fn.result = <<>>

\* a header with a language, an empty column and the same language again
\* gave the language twice
C18_Witness ==
    /\ pc = "detected"
    /\ data.headers = <<"en", "", "en">>
    /\ fn.result = <<"en", "en">>
(* ------------------------------------------------------------------ *)
(* parseCSVLine, parseCSV  (batch-asset-replacer.jsx:53-102)           *)
(* The text of the file is a sequence of characters.                   *)
(* ------------------------------------------------------------------ *)

QUOTE == "\""

COMMA == ","

LF == "\n"

CR == "\r"

\* what \s of the regular expressions matches, among the characters of the model
IsSpace(ch) == ch \in {" ", "\t", LF, CR}

RECURSIVE TrimLeft(_)
TrimLeft(str) ==
    IF str # <<>> /\ IsSpace(Head(str)) THEN TrimLeft(Tail(str)) ELSE str

RECURSIVE TrimRight(_)
TrimRight(str) ==
    IF str # <<>> /\ IsSpace(str[Len(str)])
    THEN TrimRight(SubSeq(str, 1, Len(str) - 1)) ELSE str

\* lines 53-55: str.replace(/^\s+|\s+$/g, "")
trim(str) == TrimRight(TrimLeft(str))

RECURSIVE ParseLineFrom(_, _, _, _, _)
\* lines 64-79: the loop of parseCSVLine from character i on
ParseLineFrom(line, i, result, current, inQuotes) ==
    IF i > Len(line) THEN Append(result, current)
    ELSE LET ch == line[i] IN
         IF ch = QUOTE
         THEN IF inQuotes /\ i + 1 <= Len(line) /\ line[i + 1] = QUOTE
              THEN ParseLineFrom(line, i + 2, result, Append(current, QUOTE), inQuotes)
              ELSE ParseLineFrom(line, i + 1, result, current, ~inQuotes)
         ELSE IF ch = COMMA /\ ~inQuotes
         THEN ParseLineFrom(line, i + 1, Append(result, current), <<>>, inQuotes)
         ELSE ParseLineFrom(line, i + 1, result, Append(current, ch), inQuotes)

parseCSVLine(line) == ParseLineFrom(line, 1, <<>>, <<>>, FALSE)

RECURSIVE SplitFrom(_, _, _, _)
\* csvString.split(/\r?\n/): a line ends at a line feed, and a carriage
\* return right before the line feed belongs to the line end
SplitFrom(csvString, i, lines, current) ==
    IF i > Len(csvString) THEN Append(lines, current)
    ELSE IF csvString[i] = LF
    THEN SplitFrom(csvString, i + 1,
                   Append(lines, IF current # <<>> /\ current[Len(current)] = CR
                                 THEN SubSeq(current, 1, Len(current) - 1)
                                 ELSE current),
                   <<>>)
    ELSE SplitFrom(csvString, i + 1, lines, Append(current, csvString[i]))

SplitLines(csvString) == SplitFrom(csvString, 1, <<>>, <<>>)

RECURSIVE Str(_)
\* the string of a sequence of characters
Str(chars) == IF chars = <<>> THEN "" ELSE Head(chars) \o Str(Tail(chars))

\* lines 86-87: the trimmed fields of the first line
HeadersOf(lines) ==
    LET fields == parseCSVLine(lines[1]) IN [h \in DOMAIN fields |-> Str(trim(fields[h]))]

\* lines 94-98: the object of a row; with a header that occurs twice the
\* later column is the one that stays
RowOf(headers, values) ==
    [key \in Range(headers) |->
        LET j == CHOOSE k \in DOMAIN headers :
                     headers[k] = key /\ \A m \in DOMAIN headers : headers[m] = key => m <= k
        IN  IF j <= Len(values) THEN Str(trim(values[j])) ELSE ""]

RECURSIVE RowsFrom(_, _, _, _)
\* lines 90-99: the loop over the lines after the first
RowsFrom(lines, headers, i, rows) ==
    IF i > Len(lines) THEN rows
    ELSE LET line == trim(lines[i]) IN
         IF line = <<>> THEN RowsFrom(lines, headers, i + 1, rows)
         ELSE RowsFrom(lines, headers, i + 1,
                       Append(rows, RowOf(headers, parseCSVLine(line))))

\* lines 84-102
parseCSV(csvString) ==
    LET lines   == SplitLines(csvString)
        headers == HeadersOf(lines)
    IN  [headers |-> headers, rows |-> RowsFrom(lines, headers, 2, <<>>)]

(* ------------------------------------------------------------------ *)
(* Calls of parseCSV on a text                                         *)
(* ------------------------------------------------------------------ *)

\* characters of a text
MaxCsvLen == 6

Chars == {"a", "b", COMMA, QUOTE, LF, CR}

CsvInit ==
    /\ \E n \in 0..MaxCsvLen : \E csvString \in [1..n -> Chars] :
          fn = [op |-> "read", csvString |-> csvString]
    /\ figma = NoFigma
    /\ cleanup = NoCleanup
    /\ items = <<>>
    /\ pc = "idle"
    /\ call = NoCall
    /\ data = NoData
    /\ run = NoRun
    /\ host = NoHost
    /\ hist = NoHist(items)

\* line 303: data = parseCSV(csvContent)
CallParseCSV ==
    /\ pc = "idle"
    /\ data' = parseCSV(fn.csvString)
    /\ pc' = "parsed"
    /\ UNCHANGED <<items, call, run, host, hist, fn, figma, cleanup>>

CsvNext == CallParseCSV

SpecCSV == CsvInit /\ [][CsvNext]_vars
(* ------------------------------------------------------------------ *)
(* Claims on parseCSV (SpecCSV)                                        *)
(* ------------------------------------------------------------------ *)

RECURSIVE WellQuoted(_, _)
\* every quote of body from i on is one of a pair of quotes
WellQuoted(body, i) ==
    IF i > Len(body) THEN TRUE
    ELSE IF body[i] = QUOTE
    THEN i + 1 <= Len(body) /\ body[i + 1] = QUOTE /\ WellQuoted(body, i + 2)
    ELSE WellQuoted(body, i + 1)

RECURSIVE Unescaped(_, _)
\* body from i on with one quote for every pair of quotes
Unescaped(body, i) ==
    IF i > Len(body) THEN <<>>
    ELSE IF body[i] = QUOTE THEN <<QUOTE>> \o Unescaped(body, i + 2)
    ELSE <<body[i]>> \o Unescaped(body, i + 1)

\* the text is one quoted field whose content has a comma, a line break and
\* a doubled quote
OneQuotedField(csvString) ==
    /\ Len(csvString) >= 2
    /\ csvString[1] = QUOTE
    /\ csvString[Len(csvString)] = QUOTE
    /\ LET body == SubSeq(csvString, 2, Len(csvString) - 1) IN
       /\ WellQuoted(body, 1)
       /\ COMMA \in Range(body)
       /\ LF \in Range(body)
       /\ QUOTE \in Range(body)

\* C19: a quoted field with a comma, a line break and a doubled quote in it
\* comes out as one field that holds the comma, the line break and one quote
\* for the doubled quote: the line is not split at the comma and the record
\* is not split at the line break.
C19_QuotedFieldWhole ==
    (pc = "parsed" /\ OneQuotedField(fn.csvString)) =>
        LET body == SubSeq(fn.csvString, 2, Len(fn.csvString) - 1) IN
        /\ data.headers = <<Str(trim(Unescaped(body, 1)))>>
        /\ data.rows = <<>>

\* the physical lines of the text that are not blank
NonBlankLines(csvString) ==
    LET lines == SplitLines(csvString) IN {i \in DOMAIN lines : trim(lines[i]) # <<>>}

\* C20: the header is the first physical line that is not blank, also when
\* the text starts with blank lines, and there is one row for every line
\* after the header that is not blank.
C20_HeaderIsFirstNonBlank ==
    (pc = "parsed" /\ NonBlankLines(fn.csvString) # {}) =>
        LET lines  == SplitLines(fn.csvString)
            filled == NonBlankLines(fn.csvString)
            first  == CHOOSE i \in filled : \A k \in filled : i <= k
            fields == parseCSVLine(lines[first])
        IN  /\ data.headers = [h \in DOMAIN fields |-> Str(trim(fields[h]))]
            /\ Len(data.rows) = Cardinality({i \in filled : i > first})
(* ------------------------------------------------------------------ *)
(* Claims on the order of the steps of a run (Spec)                    *)
(* ------------------------------------------------------------------ *)

\* the position of lang among the language columns of the file
LangIndex(lang) ==
    CHOOSE i \in DOMAIN detectLanguages(data.headers) : detectLanguages(data.headers)[i] = lang

\* the duplicateFullTree calls made so far for lang
PassesFor(h, lang) == {p \in DOMAIN h.passes : h.passes[p].lang = lang}

\* the rows handled so far for lang
AppliedFor(h, lang) == {k \in DOMAIN h.applied : h.applied[k].lang = lang}

Created == {c \in DOMAIN items : c > Len(hist.items0)}

\* C27: a run creates as many compositions as the confirmation dialog
\* announced: (1 + discovered sub-comps) per manifest root and language in
\* all, one per root and language in the language folders and one per
\* discovered sub-comp and language in _PRECOMPS.
C27_CreatesWhatItAnnounced ==
    pc = "done" =>
        /\ Cardinality(Created) = run.announced.total
        /\ Cardinality({c \in Created : \E li \in DOMAIN run.languages :
                            items[c].folder = LangFolderOf(run.languages[li])})
              = run.announced.inLangFolders
        /\ Cardinality({c \in Created : items[c].folder = PrecompFolder})
              = run.announced.inPrecomps
\* C28: every pair of a row and a language is counted once: each turn of
\* the row loop that completes raises exactly one of success, skipped and
\* errors by one, and at the end of a run that went through the execute
\* phase the three add up to rows times languages.
C28_EveryPairCountedOnce ==
    [][/\ (pc = "rows" /\ pc' # "crashed") =>
             \E counter \in {"success", "skipped", "errors"} :
                 run'.stats = [run.stats EXCEPT ![counter] = @ + 1]
       /\ pc' = "done" =>
             run'.stats.success + run'.stats.skipped + run'.stats.errors
                 = Len(data.rows) * Len(detectLanguages(data.headers))]_vars

\* a run of two rows and two languages has ended with a success, a failure
\* and skipped cells
C28_Witness ==
    /\ pc = "done"
    /\ Len(data.rows) = 2
    /\ run.stats = [success |-> 1, skipped |-> 2, errors |-> 1]
\* C29: findLayerDeep comes back, with a layer or with null, for every
\* project and every name, also when a composition references one of its
\* ancestors and when no layer carries the name.
C29_SearchReturns ==
    (pc = "searched" /\ fn.op = "findLayerDeep") => fn.result.status \in {"found", "null"}
(* ------------------------------------------------------------------ *)
(* Runs in which an operation of the host fails                        *)
(* ------------------------------------------------------------------ *)

\* the project at the moment duplicate() or replaceSource() throws inside
\* duplicateFullTree (lines 260, 269, 275, 284; no try around them): before
\* the first duplicate, after the sub-comps, or after the master is
\* duplicated and not yet relinked
ProjectsAtThrow(its, masterComp, langSuffix, langFolder, precompFolder, pass) ==
    LET sortedComps == TopoSort(its, discoverAllSubComps(its, masterComp))
        subs        == DupeSubComps([its |-> its, dupeMap |-> EmptyMap], sortedComps, 1,
                                    langSuffix, precompFolder, pass)
    IN  {its, subs.its, DupeInto(subs.its, masterComp, langSuffix, langFolder, pass)}

\* lines 399-405 when the host throws in a duplicateFullTree call: the
\* exception leaves main, line 446 is not reached
DuplicateTreesThrows ==
    /\ pc = "trees"
    /\ \E its \in ProjectsAtThrow(items, run.compInfo[run.masterList[run.m]].comp,
                                  langSuffixOf(run.languages[run.li]), run.langFolder,
                                  PrecompFolder, Len(hist.passes) + 1) :
          items' = its
    /\ pc' = "crashed"
    /\ UNCHANGED <<call, data, run, host, hist, fn, figma, cleanup>>

\* lines 408-437 when textProp.setValue throws in replaceText (line 195; no
\* try around it): the exception leaves main, line 446 is not reached
ApplyRowThrows ==
    /\ pc = "rows"
    /\ LET row == data.rows[run.r]
           out == RowOutcome(items, row, run.languages[run.li], run.allDupes, host.files)
       IN  /\ out.counter = "success"
           /\ toLowerCase(IF row["type"] = "" THEN "text" ELSE row["type"])
                 \notin {"footage", "image"}
    /\ pc' = "crashed"
    /\ UNCHANGED <<items, call, data, run, host, hist, fn, figma, cleanup>>

\* the project of these runs: Main references Sub, Sub holds the leaf
FailInit ==
    /\ items = MkProject(<< <<1, CompLayer(2)>>, <<2, TextLayer(LeafName, LeafValue)>> >>,
                         OrigNames)
    /\ IsManifest(data)
    /\ NoIdleLayers(items, data)
    /\ pc = "start"
    /\ call = NoCall
    /\ run = NoRun
    /\ host = NoHost
    /\ hist = NoHist(items)
    /\ fn = NoFn
    /\ figma = NoFigma
    /\ cleanup = NoCleanup

FailNext ==
    \/ NoLanguages
    \/ CompNotFound
    \/ Prepare
    \/ ConfirmCancel
    \/ ConfirmProceed
    \/ StartLanguage
    \/ DuplicateTrees
    \/ DuplicateTreesThrows
    \/ ApplyRow
    \/ ApplyRowThrows
    \/ Finish

SpecFail == FailInit /\ [][FailNext]_vars

\* C23: the run is one undoable unit: folders and compositions are created
\* and layers are changed only inside the undo group, the group is opened
\* once, and a run that has opened it has closed it when it ends, also when
\* duplicate, replaceSource or setValue fails.
C23_OneUndoGroup ==
    [][/\ (items' # items \/ host'.folders # host.folders) => host'.undo = "open"
       /\ host.undo = "open" => host'.undo \in {"open", "closed"}
       /\ host.undo = "closed" => host'.undo = "closed"
       /\ pc' \in {"done", "crashed", "returned"} => host'.undo # "open"]_vars
(* ------------------------------------------------------------------ *)
(* The same manifest run twice                                         *)
(* ------------------------------------------------------------------ *)

\* most layers of a project that is run twice
MaxTwiceLayers == 3

TwiceInit ==
    /\ IsProject(items, MaxTwiceLayers)
    /\ IsManifest(data)
    /\ NoIdleLayers(items, data)
    /\ pc = "start"
    /\ call = NoCall
    /\ run = NoRun
    /\ host = NoHost
    /\ hist = NoHist(items)
    /\ fn = NoFn
    /\ figma = NoFigma
    /\ cleanup = NoCleanup

\* the script is started again on the project and the folders the first run
\* left, with the same CSV file: main() (line 470) starts from line 293 with
\* fresh locals; hist restarts at the project the second run finds
RunAgain ==
    /\ pc = "done"
    /\ fn = NoFn
    /\ pc' = "start"
    /\ run' = NoRun
    /\ call' = NoCall
    /\ host' = [host EXCEPT !.undo = "none"]
    /\ hist' = NoHist(items)
    /\ fn' = [op |-> "main", runs |-> 2]
    /\ UNCHANGED <<items, data, figma, cleanup>>

TwiceNext ==
    \/ Next
    \/ RunAgain

SpecTwice == TwiceInit /\ [][TwiceNext]_vars

\* the second run has ended
SecondRunDone == pc = "done" /\ fn # NoFn

\* compositions the first run created, and those the second run created
OfFirstRun == {c \in 1..Len(hist.items0) : hist.items0[c].orig # 0}
OfSecondRun == {c \in DOMAIN items : c > Len(hist.items0)}

\* what holds of the project a second run leaves: there is a new duplicate of
\* every root for every locale, and no tree of the second run reaches a
\* composition of the first run
SeparateTrees ==
    /\ \A root \in ManifestRoots : \A i \in DOMAIN run.languages :
          \E d \in OfSecondRun : /\ items[d].orig = root
                                 /\ items[d].folder = LangFolderOf(run.languages[i])
    /\ Closure(items, {d \in OfSecondRun : items[d].folder # PrecompFolder})
          \cap OfFirstRun = {}

\* C21: running the same manifest twice gives two independent duplicate
\* trees: the second run creates new compositions for every root and locale,
\* no step of it changes a composition or layer the first run created, and
\* its substitutions land only in its own duplicates (no step of it changes
\* a composition that existed when it started).
C21_SecondRunIndependent ==
    [][fn # NoFn =>
          /\ \A c \in 1..Len(hist.items0) : items'[c] = items[c]
          /\ SecondRunDone' => SeparateTrees']_vars
(* ------------------------------------------------------------------ *)
(* The Figma plugin (code.js, listed in src/figma-plugin/README.md)   *)
(* ------------------------------------------------------------------ *)

\* the other variables while the plugin runs
OutsidePlugin == <<items, pc, call, data, run, host, hist, fn, cleanup>>

\* a text node; font loading of a node with hasMissingFont is refused
TextNode(name, characters, hasMissingFont) ==
    [type |-> "TEXT", name |-> name, characters |-> characters,
     hasMissingFont |-> hasMissingFont]

\* a node with children; "of" is <<run, language index>> for the clone that
\* run made, <<0, 0>> for every other node
ParentNode(type, name, children) ==
    [type |-> type, name |-> name, children |-> children, of |-> <<0, 0>>]

\* the node at a path of child positions under a node
RECURSIVE NodeAt(_, _)
NodeAt(node, path) ==
    IF path = <<>> THEN node ELSE NodeAt(node.children[Head(path)], Tail(path))

\* the node with the characters of the text node at a path replaced
RECURSIVE SetCharacters(_, _, _)
SetCharacters(node, path, newValue) ==
    IF path = <<>>
    THEN [node EXCEPT !.characters = newValue]
    ELSE [node EXCEPT !.children[Head(path)] = SetCharacters(@, Tail(path), newValue)]

\* lines 249-264: the text nodes under a node, as paths from that node, the
\* node itself first, then child by child
RECURSIVE findAllTextNodes(_)
RECURSIVE TextNodesOfChildren(_, _)
TextNodesOfChildren(node, c) ==
    IF c > Len(node.children) THEN <<>>
    ELSE [i \in 1..Len(findAllTextNodes(node.children[c])) |->
              <<c>> \o findAllTextNodes(node.children[c])[i]]
         \o TextNodesOfChildren(node, c + 1)

findAllTextNodes(node) ==
    (IF node.type = "TEXT" THEN << <<>> >> ELSE <<>>)
    \o (IF "children" \in DOMAIN node THEN TextNodesOfChildren(node, 1) ELSE <<>>)

\* lines 143-149: the row layerMap holds for a name: the last row with that
\* layer_name; rows without a layer_name are not entered
HasRow(rows, name) == name # "" /\ \E i \in DOMAIN rows : rows[i]["layer_name"] = name

\* the first row with the name instead
firstRowOf(rows, name) ==
    rows[CHOOSE i \in DOMAIN rows :
            /\ rows[i]["layer_name"] = name
            /\ \A j \in DOMAIN rows : rows[j]["layer_name"] = name => i <= j]

layerMap(rows, name) ==
    rows[CHOOSE i \in DOMAIN rows :
            /\ rows[i]["layer_name"] = name
            /\ \A j \in DOMAIN rows : rows[j]["layer_name"] = name => j <= i]

\* figma.ui.postMessage by run r
PostMessage(f, r, msg) == [f EXCEPT !.runs[r].posted = Append(@, msg)]

\* lines 201-203, 209-211: errorLog.push while it has fewer than 20 entries
PushError(f, r, errMsg) ==
    IF Len(f.runs[r].errorLog) < 20
    THEN [f EXCEPT !.runs[r].errorLog = Append(@, errMsg)]
    ELSE f

\* one of the counters of stats raised by one
CountNode(f, r, counter) == [f EXCEPT !.runs[r].stats[counter] = @ + 1]

\* what happened to the text nodes of run r, in order
LogEvent(f, r, ev) ==
    [f EXCEPT !.runs[r].log = Append(@, [ev |-> ev, clone |-> f.runs[r].clone,
                                         node |-> f.runs[r].textNodes[f.runs[r].k]])]

\* the text node run r stands at, its row and the value for the language
CurrentNode(f, r) == NodeAt(f.page[f.runs[r].clone], f.runs[r].textNodes[f.runs[r].k])
CurrentRow(f, r) == layerMap(f.runs[r].rows, CurrentNode(f, r).name)
CurrentLang(f, r) == f.runs[r].languages[f.runs[r].i]
CurrentType(f, r) ==
    toLowerCase(IF CurrentRow(f, r)["type"] = "" THEN "text" ELSE CurrentRow(f, r)["type"])

\* lines 156-170: progress message, clone of the master frame renamed for
\* the language (the dash of line 167 is written " - ", the position on
\* the canvas is left out), its text nodes
StartClone(f, r) ==
    LET q       == f.runs[r]
        n       == Len(q.languages)
        percent == ((q.i * 180 + n) \div (2 * n)) + 10
        clone   == [f.page[q.masterFrame] EXCEPT
                       !.name = @ \o " - " \o q.languages[q.i],
                       !.of = <<r, q.i>>]
        g       == PostMessage(f, r, [type |-> "progress", percent |-> percent])
    IN  [g EXCEPT !.page = Append(@, clone),
                  !.runs[r].clone = Len(f.page) + 1,
                  !.runs[r].textNodes = findAllTextNodes(clone),
                  !.runs[r].k = 1]

\* lines 200-204, 219-221: the catch blocks: the text branch logs the
\* message, the default branch only counts
Caught(f, r) ==
    CountNode(IF CurrentType(f, r) = "text"
              THEN PushError(f, r, [lang |-> CurrentLang(f, r),
                                    layerName |-> CurrentNode(f, r).name,
                                    what |-> "Failed to set text"])
              ELSE f,
              r, "errors")

\* the next text node of the clone
NextNode(f, r) == [f EXCEPT !.runs[r].k = @ + 1]

\* the call touches the node and suspends before the fonts are there
SuspendAfterWrite(f, r) ==
    LET g == LogEvent(LogEvent(f, r, "load"), r, "write")
    IN  [g EXCEPT !.page[f.runs[r].clone] =
                      SetCharacters(@, f.runs[r].textNodes[f.runs[r].k],
                                    CurrentRow(f, r)[CurrentLang(f, r)]),
                  !.runs[r].at = "await"]

\* lines 194, 216 with 275-302: await loadAllFonts(textNode): loadFontAsync
\* is called for the fonts of the node and the call is suspended
Suspend(f, r) == [LogEvent(f, r, "load") EXCEPT !.runs[r].at = "await"]

\* lines 152-224 and 226-244 from the place run r stands at up to its next
\* await of a font or its end: JavaScript runs this without interruption;
\* at the end the master frame is selected again and the complete message
\* is posted (the viewport is left out)
RECURSIVE Continue(_, _)
Continue(f, r) ==
    LET q == f.runs[r]
    IN  IF q.i > Len(q.languages)
        THEN [PostMessage(f, r, [type |-> "complete", stats |-> q.stats,
                                 errorLog |-> q.errorLog])
                 EXCEPT !.selection = <<q.masterFrame>>, !.runs[r].at = "returned"]
        ELSE IF q.clone = 0 THEN Continue(StartClone(f, r), r)
        ELSE IF q.k > Len(q.textNodes)
             THEN Continue([f EXCEPT !.runs[r].i = @ + 1, !.runs[r].clone = 0], r)
        ELSE IF ~HasRow(q.rows, CurrentNode(f, r).name)
             THEN Continue(NextNode(f, r), r)
        ELSE IF CurrentRow(f, r)[CurrentLang(f, r)] = ""
             THEN Continue(NextNode(CountNode(f, r, "skipped"), r), r)
        ELSE IF CurrentType(f, r) \in {"image", "footage"}
             THEN Continue(NextNode(CountNode(
                      PushError(f, r, [lang |-> CurrentLang(f, r),
                                       layerName |-> CurrentNode(f, r).name,
                                       what |-> "Image replacement not yet supported"]),
                      r, "errors"), r), r)
        ELSE IF CurrentNode(f, r).hasMissingFont
             THEN Continue(NextNode(Caught(LogEvent(f, r, "threw"), r), r), r)
        ELSE Suspend(f, r)

\* lines 118-139: runLocalization up to the first await or return
runLocalization(f, rows, languages) ==
    LET r == Len(f.runs) + 1
        NewRun ==
            [rows |-> rows, languages |-> languages, masterFrame |-> 0, i |-> 1, clone |-> 0,
             textNodes |-> <<>>, k |-> 1,
             stats |-> [languages |-> Len(languages), success |-> 0, skipped |-> 0,
                        errors |-> 0],
             errorLog |-> <<>>, posted |-> <<>>, at |-> "running", log |-> <<>>]
        g == [f EXCEPT !.runs = Append(@, NewRun)]
        Refuse(message) ==
            [PostMessage(g, r, [type |-> "error", message |-> message])
                EXCEPT !.runs[r].at = "returned"]
    IN  IF Len(f.selection) = 0 THEN Refuse("No frame selected. Please select a frame first.")
        ELSE IF Len(f.selection) > 1
             THEN Refuse("Please select only one frame (your EN master).")
        ELSE IF f.page[f.selection[1]].type \notin {"FRAME", "COMPONENT", "INSTANCE"}
             THEN Refuse("Selected item is not a frame. Please select a frame.")
        ELSE Continue([g EXCEPT !.runs[r].masterFrame = f.selection[1]], r)

\* lines 110-114: figma.ui.onmessage takes the oldest message of the UI
onmessage ==
    /\ figma.inbox # <<>>
    /\ LET msg == Head(figma.inbox)
           f   == [figma EXCEPT !.inbox = Tail(@)]
       IN  figma' = IF msg.type = "run-localization"
                    THEN runLocalization(f, msg.rows, msg.languages)
                    ELSE f
    /\ UNCHANGED OutsidePlugin

\* lines 194-198, 216-218: the fonts of the node are loaded: run r resumes,
\* sets the characters, counts a success and goes on to its next await
FontsLoaded(r) ==
    /\ r \in DOMAIN figma.runs
    /\ figma.runs[r].at = "await"
    /\ LET f == LogEvent(LogEvent(figma, r, "loaded"), r, "write")
           g == [f EXCEPT !.page[figma.runs[r].clone] =
                              SetCharacters(@, figma.runs[r].textNodes[figma.runs[r].k],
                                            CurrentRow(figma, r)[CurrentLang(figma, r)]),
                          !.runs[r].at = "running"]
       IN  figma' = Continue(NextNode(CountNode(g, r, "success"), r), r)
    /\ UNCHANGED OutsidePlugin

\* lines 200-204, 219-221: a loadFontAsync promise is rejected: run r resumes
\* in its catch block and goes on to its next await
FontsFailed(r) ==
    /\ r \in DOMAIN figma.runs
    /\ figma.runs[r].at = "await"
    /\ LET f == [LogEvent(figma, r, "failed") EXCEPT !.runs[r].at = "running"]
       IN  figma' = Continue(NextNode(Caught(f, r), r), r)
    /\ UNCHANGED OutsidePlugin

\* most rows of a CSV the UI sends
MaxFigmaRows == 2

\* master frames: a first text node, named in the CSV or not, with
\* characters or empty, with or without a missing font, and possibly a second
\* child, a text node or a group around one
MasterFrames ==
    LET names == {"Headline", "CTA", "Logo"}
        texts == {TextNode(name, "Hello", FALSE) : name \in names}
                 \cup {TextNode(name, "", FALSE) : name \in names}
                 \cup {TextNode(name, "Hello", TRUE) : name \in names}
        seconds == {TextNode(name, "Hello", FALSE) : name \in {"Headline", "Logo"}}
                   \cup {ParentNode("GROUP", "Group", <<TextNode(name, "Hello", FALSE)>>) :
                            name \in {"Headline", "Logo"}}
    IN  {ParentNode("FRAME", "Master", <<t>>) : t \in texts}
        \cup {ParentNode("FRAME", "Master", <<t, u>>) : t \in texts, u \in seconds}

\* rows as the UI parses them from the CSV
FigmaRow(name, type, en, fr) ==
    [layer_name |-> name, type |-> type, en |-> en, fr |-> fr]

\* the messages of a click: a CSV of up to MaxFigmaRows rows, for en or
\* for en and fr
RunMessages ==
    LET FigmaRows ==
            {FigmaRow("Headline", type, cells[1], cells[2]) :
                type \in {"text", "", "Image", "note"},
                cells \in {<<"Hi", "Salut">>, <<"Hi", "">>, <<"", "Salut">>}}
            \cup {FigmaRow("CTA", "text", "Go", "Allez"), FigmaRow("", "text", "Hi", "Salut")}
    IN  {[type |-> "run-localization", rows |-> rows, languages |-> languages] :
            rows \in UNION {[1..n -> FigmaRows] : n \in 1..MaxFigmaRows},
            languages \in {<<"en">>, <<"en", "fr">>}}

\* the plugin is open (line 106) on a page with a master frame, the user has
\* selected something and clicked once
FigmaInit ==
    /\ \E master \in MasterFrames : \E msg \in RunMessages :
       \E selection \in {<<>>, <<1>>, <<2>>, <<1, 2>>} :
          figma = [page |-> <<master, [type |-> "RECTANGLE", name |-> "Rectangle"]>>, selection |-> selection,
                   inbox |-> <<msg>>, runs |-> <<>>]
    /\ items = <<>>
    /\ pc = "idle"
    /\ call = NoCall
    /\ data = NoData
    /\ run = NoRun
    /\ host = NoHost
    /\ hist = NoHist(items)
    /\ fn = NoFn
    /\ cleanup = NoCleanup

FigmaNext ==
    \/ onmessage
    \/ \E r \in DOMAIN figma.runs : FontsLoaded(r)
    \/ \E r \in DOMAIN figma.runs : FontsFailed(r)

SpecFigma == FigmaInit /\ [][FigmaNext]_vars

\* the user has clicked twice with a CSV of two rows for two languages, or
\* the UI has sent another message first
ClicksInit ==
    /\ LET TwoLanguages ==
               [type |-> "run-localization",
                rows |-> <<FigmaRow("Headline", "text", "Hi", "Salut"),
                           FigmaRow("CTA", "text", "Go", "")>>,
                languages |-> <<"en", "fr">>]
       IN  \E inbox \in {<<TwoLanguages, TwoLanguages>>,
                         <<[type |-> "resize"], TwoLanguages>>} :
              figma = [page |-> <<ParentNode("FRAME", "Master",
                                             <<TextNode("Headline", "Hello", FALSE),
                                               TextNode("CTA", "Hello", FALSE)>>),
                                  [type |-> "RECTANGLE", name |-> "Rectangle"]>>,
                       selection |-> <<1>>, inbox |-> inbox, runs |-> <<>>]
    /\ items = <<>>
    /\ pc = "idle"
    /\ call = NoCall
    /\ data = NoData
    /\ run = NoRun
    /\ host = NoHost
    /\ hist = NoHist(items)
    /\ fn = NoFn
    /\ cleanup = NoCleanup

SpecClicks == ClicksInit /\ [][FigmaNext]_vars

\* the events of run r are in the order of one node after the other: a load
\* is answered before anything else happens to the run's nodes, a write
\* follows the loading of the same node
OneNodeAtATime(r) ==
    LET log == figma.runs[r].log
        Same(j, k) == log[j].clone = log[k].clone /\ log[j].node = log[k].node
    IN  \A j \in DOMAIN log :
           /\ log[j].ev = "write" => j > 1 /\ log[j - 1].ev = "loaded" /\ Same(j, j - 1)
           /\ log[j].ev \in {"loaded", "failed"} =>
                 j > 1 /\ log[j - 1].ev = "load" /\ Same(j, j - 1)
           /\ (log[j].ev = "load" /\ j > 1) => log[j - 1].ev \in {"write", "failed", "threw"}

\* C24: text nodes of a clone are handled one at a time: the fonts of a node
\* are loaded before its characters are set, the loading for the next node
\* starts only after the previous node is written or has failed, and a step
\* changes a frame only in the one node whose fonts its run was waiting for.
C24_OneLeafAtATime ==
    [][/\ \A r \in DOMAIN figma'.runs : OneNodeAtATime(r)'
       /\ \A p \in DOMAIN figma.page :
             figma'.page[p] # figma.page[p] =>
                \E r \in DOMAIN figma.runs :
                   /\ figma.runs[r].at = "await"
                   /\ figma.runs[r].clone = p
                   /\ \E value \in {"Hi", "Salut", "Go", "Allez"} :
                         figma'.page[p] =
                            SetCharacters(figma.page[p],
                                          figma.runs[r].textNodes[figma.runs[r].k], value)
       /\ \A r, q \in DOMAIN figma'.runs :
             (r # q /\ figma'.runs[r].clone # 0) =>
                figma'.runs[r].clone # figma'.runs[q].clone]_vars

\* both runs have written both text nodes of their first clones, run 2
\* while run 1 was waiting for fonts
C24_Witness ==
    /\ Len(figma.runs) = 2
    /\ figma.runs[1].at = "await"
    /\ \A r \in {1, 2} : figma.runs[r].stats.success >= 2
    /\ \A r \in {1, 2} : \E j \in DOMAIN figma.runs[r].log :
          figma.runs[r].log[j] = [ev |-> "write", clone |-> figma.runs[r].log[1].clone,
                                  node |-> <<2>>]

\* run r has posted its complete message
HasCompleted(r) == \E j \in DOMAIN figma.runs[r].posted : figma.runs[r].posted[j].type = "complete"

\* the clones on the page that run r made
ClonesOf(r) == {p \in DOMAIN figma.page : "of" \in DOMAIN figma.page[p] /\ figma.page[p].of[1] = r}

\* C30: runs do not interleave: a run that was started while an earlier run
\* was suspended at an await creates no clone and sets no characters before
\* the earlier run has posted its complete message.
C30_RunsDoNotInterleave ==
    \A r \in DOMAIN figma.runs : \A q \in 1..(r - 1) :
        (ClonesOf(r) # {} /\ ClonesOf(q) # {}) => HasCompleted(q)

\* the run of the one click has posted its complete message
RunCompleted == Len(figma.runs) = 1 /\ HasCompleted(1)

\* the frame the run was given, and its clone for the language at index i
MasterOfRun == figma.page[figma.runs[1].masterFrame]
CloneFor(i) == figma.page[CHOOSE p \in ClonesOf(1) : figma.page[p].of[2] = i]

\* the run made one clone for every language
OneClonePerLanguage ==
    /\ Cardinality(ClonesOf(1)) = Len(figma.runs[1].languages)
    /\ \A i \in DOMAIN figma.runs[1].languages : \E p \in ClonesOf(1) : figma.page[p].of[2] = i

\* no step changes a node of the page that is not a clone of a run
MasterKept ==
    \A p \in DOMAIN figma.page :
        ("of" \notin DOMAIN figma.page[p] \/ figma.page[p].of = <<0, 0>>) =>
            figma'.page[p] = figma.page[p]

\* the rows of the CSV that name a text node and have a cell for a language
RowsNaming(name, lang) ==
    {j \in DOMAIN figma.runs[1].rows :
        /\ figma.runs[1].rows[j]["layer_name"] = name
        /\ figma.runs[1].rows[j][lang] # ""}

\* C25 as stated: one clone per language, the master frame is never changed,
\* and in each clone exactly the text nodes named by a CSV row with a
\* non-empty cell for the language carry that cell; all others keep their
\* characters.
C25_ExactlyTheNamedNodes ==
    [][/\ MasterKept
       /\ RunCompleted' =>
             (/\ OneClonePerLanguage
              /\ \A i \in DOMAIN figma.runs[1].languages :
                 \A t \in Range(findAllTextNodes(MasterOfRun)) :
                    LET lang  == figma.runs[1].languages[i]
                        named == RowsNaming(NodeAt(MasterOfRun, t).name, lang)
                    IN  IF named # {}
                        THEN \E j \in named :
                                NodeAt(CloneFor(i), t).characters = figma.runs[1].rows[j][lang]
                        ELSE NodeAt(CloneFor(i), t).characters
                                = NodeAt(MasterOfRun, t).characters)']_vars

\* the last row of the CSV with a layer_name, 0 if there is none
LastRowNaming(name) ==
    LET named == {j \in DOMAIN figma.runs[1].rows : figma.runs[1].rows[j]["layer_name"] = name}
    IN  IF name = "" \/ named = {} THEN 0
        ELSE CHOOSE j \in named : \A k \in named : k <= j

\* the text node at t of the clone for language i is due a new value: the
\* last row with its name has a cell for the language and is not a row of
\* type image or footage, and the fonts of the node could be loaded
Replaceable(i, t) ==
    LET lang == figma.runs[1].languages[i]
        node == NodeAt(MasterOfRun, t)
        j    == LastRowNaming(node.name)
    IN  /\ j # 0
        /\ figma.runs[1].rows[j][lang] # ""
        /\ figma.runs[1].rows[j]["type"] \notin {"image", "Image", "footage"}
        /\ ~node.hasMissingFont
        /\ \A e \in DOMAIN figma.runs[1].log :
              ~(/\ figma.runs[1].log[e].ev = "failed"
                /\ figma.page[figma.runs[1].log[e].clone].of[2] = i
                /\ figma.runs[1].log[e].node = t)

\* C25 amended: one clone per language, the master frame is never changed,
\* and in each clone exactly the text nodes that are replaceable carry the
\* cell of the last row with their name; all others keep their characters.
C25_ExactlyTheReplaceable ==
    [][/\ MasterKept
       /\ RunCompleted' =>
             (/\ OneClonePerLanguage
              /\ \A i \in DOMAIN figma.runs[1].languages :
                 \A t \in Range(findAllTextNodes(MasterOfRun)) :
                    NodeAt(CloneFor(i), t).characters =
                       IF Replaceable(i, t)
                       THEN figma.runs[1].rows[LastRowNaming(NodeAt(MasterOfRun, t).name)]
                                [figma.runs[1].languages[i]]
                       ELSE NodeAt(MasterOfRun, t).characters)']_vars

\* a completed run for two languages on a frame with two text nodes named
\* Headline, one of them inside a group: all four copies carry the new value
C25_Witness ==
    /\ RunCompleted
    /\ Len(figma.runs[1].languages) = 2
    /\ figma.runs[1].stats.success = 4
    /\ MasterOfRun.children[2].type = "GROUP"
    /\ NodeAt(CloneFor(1), <<1>>).characters = "Hi"
    /\ NodeAt(CloneFor(1), <<2, 1>>).characters = "Hi"
    /\ NodeAt(CloneFor(2), <<2, 1>>).characters = "Salut"
    /\ NodeAt(MasterOfRun, <<2, 1>>).characters = "Hello"
(* ------------------------------------------------------------------ *)
(* The Project Cleanup Tool (project-cleanup-tool.jsx)                *)
(* ------------------------------------------------------------------ *)

\* the other variables while the panel is used
OutsidePanel == <<items, pc, call, data, run, host, hist, fn, figma>>

\* most layers of the composition of the project
MaxCleanupLayers == 2

\* the project: a composition, two footage items with files of their own, a
\* solid and a folder; "kind" tells CompItem, FootageItem with a file,
\* FootageItem with a SolidSource and FolderItem apart, "valid" is false
\* once the item is removed from the project
CleanupProject(layers) ==
    LET ProjectItem(kind, lyrs) == [kind |-> kind, layers |-> lyrs, valid |-> TRUE]
    IN  <<ProjectItem("comp", layers), ProjectItem("footage", <<>>),
          ProjectItem("footage", <<>>), ProjectItem("solid", <<>>),
          ProjectItem("folder", <<>>)>>

\* items a layer can have as its source
Sources(project) == {s \in DOMAIN project : project[s].valid /\ project[s].kind \in {"footage", "solid"}}

\* lines 408-414 on the items of this project (none of its footage files is
\* named like a solid)
isSolid(project, item) == project[item].kind = "solid"

\* the item is the source of a layer of a composition
IsUsed(project, item) ==
    \E c \in DOMAIN project :
        /\ project[c].valid
        /\ project[c].kind = "comp"
        /\ \E l \in DOMAIN project[c].layers : project[c].layers[l] = item

\* the items of a kind in the order of the project panel
RECURSIVE ItemsOfKind(_, _, _)
ItemsOfKind(project, i, kind) ==
    IF i > Len(project) THEN <<>>
    ELSE (IF project[i].valid /\ project[i].kind = kind THEN <<i>> ELSE <<>>)
         \o ItemsOfKind(project, i + 1, kind)

\* lines 317-383 (missingItems and audioItems are left out: no file of this
\* project is offline)
scanProject(project) ==
    LET usedItems == {s \in DOMAIN project : IsUsed(project, s)}
        footageItems == ItemsOfKind(project, 1, "footage")
    IN  [scanned      |-> TRUE,
         totalItems   |-> Cardinality({i \in DOMAIN project : project[i].valid}),
         comps        |-> ItemsOfKind(project, 1, "comp"),
         footageItems |-> footageItems,
         solids       |-> ItemsOfKind(project, 1, "solid"),
         folders      |-> ItemsOfKind(project, 1, "folder"),
         unusedItems  |-> SelectSeq(footageItems, LAMBDA i : i \notin usedItems)]

\* item.remove() of the host: the item leaves the project and the layers
\* that had it as their source go with it
HostRemove(project, item) ==
    [c \in DOMAIN project |->
        IF c = item THEN [project[c] EXCEPT !.valid = FALSE]
        ELSE [project[c] EXCEPT !.layers = SelectSeq(@, LAMBDA s : s # item)]]

\* lines 168-180: the loop over unused from its last entry to its first;
\* remove() of an item that is no longer in the project throws and is
\* caught; every removal is noted with what the item was at that moment
RECURSIVE RemoveLoop(_, _, _)
RemoveLoop(c, unused, j) ==
    IF j < 1 THEN c
    ELSE IF c.protectSolids /\ c.project[unused[j]].valid /\ isSolid(c.project, unused[j])
         THEN RemoveLoop(c, unused, j - 1)
    ELSE IF ~c.project[unused[j]].valid
         THEN RemoveLoop(c, unused, j - 1)
    ELSE RemoveLoop([c EXCEPT !.project = HostRemove(@, unused[j]),
                              !.removals = Append(@, [item |-> unused[j],
                                                      kind |-> c.project[unused[j]].kind,
                                                      used |-> IsUsed(c.project, unused[j])])],
                    unused, j - 1)

\* line 124 after buildCleanupUI: the panel is open on a project
CleanupInit ==
    /\ \E n \in 0..MaxCleanupLayers : \E layers \in [1..n -> {2, 3, 4}] :
          cleanup = [NoCleanup EXCEPT !.project = CleanupProject(layers)]
    /\ items = <<>>
    /\ pc = "idle"
    /\ call = NoCall
    /\ data = NoData
    /\ run = NoRun
    /\ host = NoHost
    /\ hist = NoHist(items)
    /\ fn = NoFn
    /\ figma = NoFigma

\* lines 126-130: scanBtn.onClick
ScanClick ==
    /\ cleanup' = [cleanup EXCEPT !.projectData = scanProject(cleanup.project)]
    /\ UNCHANGED OutsidePanel

\* lines 134-187: removeUnusedBtn.onClick; the user answers the confirm
\* dialog either way
RemoveUnusedClick ==
    /\ \E confirmed \in BOOLEAN :
          LET projectData == IF ~cleanup.projectData.scanned
                             THEN scanProject(cleanup.project)
                             ELSE cleanup.projectData
              unused      == projectData.unusedItems
              c           == [cleanup EXCEPT !.projectData = projectData]
              after       == RemoveLoop(c, unused, Len(unused))
          IN  cleanup' = IF Len(unused) = 0 \/ cleanup.dryRun \/ ~confirmed
                         THEN c
                         ELSE [after EXCEPT !.projectData = scanProject(after.project)]
    /\ UNCHANGED OutsidePanel

\* lines 191-198: consolidateBtn.onClick on a project without two footage
\* items of the same file: the scan of line 192, then the alert
ConsolidateClick ==
    /\ ~cleanup.projectData.scanned
    /\ cleanup' = [cleanup EXCEPT !.projectData = scanProject(cleanup.project)]
    /\ UNCHANGED OutsidePanel

\* lines 112-113: the user switches the preview mode checkbox
TogglePreview ==
    /\ cleanup' = [cleanup EXCEPT !.dryRun = ~@]
    /\ UNCHANGED OutsidePanel

\* lines 115-116: the user switches the protect solids checkbox
ToggleProtectSolids ==
    /\ cleanup' = [cleanup EXCEPT !.protectSolids = ~@]
    /\ UNCHANGED OutsidePanel

\* the user works on the project while the panel is open: a footage item or
\* solid is put into the composition
UserAddsLayer ==
    /\ cleanup.project[1].valid
    /\ Len(cleanup.project[1].layers) < MaxCleanupLayers
    /\ \E s \in Sources(cleanup.project) :
          cleanup' = [cleanup EXCEPT !.project[1].layers = Append(@, s)]
    /\ UNCHANGED OutsidePanel

\* the user deletes a layer of the composition
UserDeletesLayer ==
    /\ \E l \in DOMAIN cleanup.project[1].layers :
          cleanup' = [cleanup EXCEPT !.project[1].layers =
                         SubSeq(@, 1, l - 1) \o SubSeq(@, l + 1, Len(@))]
    /\ UNCHANGED OutsidePanel

\* the user deletes a footage item in the project panel
UserDeletesItem ==
    /\ \E s \in Sources(cleanup.project) :
          cleanup' = [cleanup EXCEPT !.project = HostRemove(@, s)]
    /\ UNCHANGED OutsidePanel

CleanupNext ==
    \/ ScanClick
    \/ RemoveUnusedClick
    \/ ConsolidateClick
    \/ TogglePreview
    \/ ToggleProtectSolids
    \/ UserAddsLayer
    \/ UserDeletesLayer
    \/ UserDeletesItem

SpecCleanup == CleanupInit /\ [][CleanupNext]_vars

\* C26: whatever the sequence of scans, project edits and clicks, every item
\* Remove Unused Footage removes is at that moment a footage item that is
\* not the source of any layer of any composition.
C26_RemovesOnlyUnused ==
    \A j \in DOMAIN cleanup.removals :
        cleanup.removals[j].kind = "footage" /\ ~cleanup.removals[j].used

============================================================================
